---------------------------- MODULE Spec2Model ----------------------------
(***************************************************************************)
(* A model of the Merkle Mountain Range accumulator of accumulator.c:      *)
(* the node tracker (chained hash table), the forest (create_leaf,         *)
(* merge_nodes) and the public operations mmr_add, mmr_witness and         *)
(* mmr_verify, driven by a caller that keeps the proofs it was handed.     *)
(*                                                                         *)
(* Pointers are indices into arenas (0 is NULL): an MMRNode pointer is an  *)
(* index into nodes, an MMRItem is identified by the node it holds, and a  *)
(* siblings buffer is an index into bufs.                                  *)
(*                                                                         *)
(* SHA-256 is modelled as a collision-free hash: the digest of a message   *)
(* is the term [sha |-> message].  A message is either a short byte string *)
(* [b |-> <<...>>] or the 64-byte buffer [l |-> d1, r |-> d2] made of two  *)
(* digests, so that, as in the code, the digest of a 64-byte element that  *)
(* is the concatenation of two digests IS the merkle_hash of the two.      *)
(***************************************************************************)
EXTENDS Integers, Sequences, FiniteSets, TLC

\* ------------------------------ bounds -----------------------------------
\* Spec: mmr_add calls and successful mmr_witness calls in one behaviour
MaxAdds == 5
MaxWitness == 1
\* SpecTwice: the same, the caller asking for a second proof
MaxTwiceAdds == 3
MaxTwiceWitness == 2
\* SpecForge: the same, the caller tampering with the proof it was handed
MaxForgeAdds == 3
MaxForgeWitness == 1
\* SpecMiss: the same, the caller asking for proofs of what it never added
MaxMissAdds == 4
MaxMissWitness == 2
\* SpecDestroy: mmr_add calls, the allocations of a call that can fail, and
\* successful mmr_witness calls
MaxDestroyAdds == 3
MaxDestroyFailAt == 4
MaxDestroyWitness == 2
\* SpecFail: mmr_add calls, and the allocations of a call that can fail
MaxFailAdds == 4
MaxFailAt == 6
\* SpecGrow: mmr_add calls, and the first of them that may add "1" again
MaxGrow == 24
MaxGrowRepeats == 6
MaxNoMemAdds == 3
MaxNoMemWitness == 2
\* SpecStale: adds of the next string and of the strings added before, one
\* proof.
MaxStaleAdds == 10
MaxStaleWitness == 1

\* ---------------------------- constants ----------------------------------
NULL == 0
WITNESS_MAX_SIBLINGS == 63
TRACKER_MIN_CAPACITY == 16
\* TRACKER_LOAD_THRESH 0.75 as the fraction 3/4
TRACKER_LOAD_NUM == 3
TRACKER_LOAD_DEN == 4
MMR_SIBLING_LEFT == 0
MMR_SIBLING_RIGHT == 1
SHA256_DIGEST_LENGTH == 32
\* The low 16 bits of the FNV-1a 64-bit offset basis 0xCBF29CE484222325 and
\* of the FNV prime 0x100000001B3.  The prime is odd and the capacity is
\* always 16 * 2^k, so h % capacity depends on the low bits of h only and the
\* 16-bit computation gives the bucket the 64-bit computation gives.
FNV_OFFSET == 8997
FNV_PRIME == 435
FnvWord == 2 ^ 16

\* ------------------------------ HASHING ----------------------------------
Bytes(s) == [b |-> s]
Cat(l, r) == [l |-> l, r |-> r]
IsBytes(m) == "b" \in DOMAIN m
MsgLen(m) == IF IsBytes(m) THEN Len(m.b) ELSE 2 * SHA256_DIGEST_LENGTH

sha256(m) == [sha |-> m]

merkle_hash(left, right) == sha256(Cat(left, right))

hashes_equal(a, b) == a = b

\* The all-zero digest a memset leaves behind.
ZeroHash == [zero |-> 0]

\* SHA-256 is OpenSSL's function.  The model holds its value on the
\* messages the program hashes in the runs: Sha256Ones[k] is the digest of
\* the k bytes "11...1", and an entry <<l, r, d>> of Sha256Pairs gives the
\* digest d of the 64 bytes made of digest l followed by digest r.  Digests
\* are numbered: 1 .. NOnes those of Sha256Ones, then 32 zero bytes, then
\* JunkHash, then those of Sha256Pairs in their order, which is the order
\* of (max(l, r), l, r).
Sha256Ones ==
    <<
      <<107, 134, 178, 115, 255, 52, 252, 225, 157, 107, 128, 78, 255, 90, 63, 87,
        71, 173, 164, 234, 162, 47, 29, 73, 192, 30, 82, 221, 183, 135, 91, 75>>,
      <<79, 200, 43, 38, 174, 203, 71, 210, 134, 140, 78, 251, 227, 88, 23, 50,
        163, 231, 203, 204, 108, 46, 251, 50, 6, 44, 8, 23, 10, 5, 238, 184>>,
      <<246, 224, 161, 226, 172, 65, 148, 90, 154, 167, 255, 138, 138, 170, 12, 235,
        193, 42, 59, 204, 152, 26, 146, 154, 213, 207, 129, 10, 9, 14, 17, 174>>,
      <<15, 254, 26, 189, 26, 8, 33, 83, 83, 194, 51, 214, 224, 9, 97, 62,
        149, 238, 196, 37, 56, 50, 167, 97, 175, 40, 255, 55, 172, 90, 21, 12>>,
      <<209, 127, 37, 236, 251, 204, 120, 87, 247, 190, 190, 164, 105, 48, 139, 224,
        178, 88, 9, 67, 233, 109, 19, 163, 173, 152, 161, 54, 117, 196, 191, 194>>,
      <<188, 177, 95, 130, 20, 121, 180, 213, 119, 43, 208, 202, 134, 108, 0, 173,
        95, 146, 110, 53, 128, 114, 6, 89, 204, 128, 211, 156, 157, 9, 128, 42>>,
      <<37, 88, 163, 77, 77, 32, 150, 76, 161, 210, 114, 171, 38, 204, 206, 149,
        17, 216, 128, 87, 149, 147, 205, 76, 158, 1, 171, 145, 237, 0, 243, 37>>,
      <<238, 121, 151, 108, 147, 128, 213, 227, 55, 252, 28, 9, 94, 206, 140, 143,
        34, 249, 31, 48, 108, 238, 177, 97, 250, 81, 254, 206, 222, 44, 75, 161>>,
      <<26, 83, 118, 173, 114, 125, 101, 33, 58, 121, 243, 16, 133, 65, 207, 149,
        1, 41, 105, 160, 211, 6, 79, 16, 139, 93, 214, 231, 248, 193, 155, 137>>,
      <<210, 208, 46, 167, 77, 226, 201, 250, 177, 216, 2, 219, 150, 156, 24, 212,
        9, 168, 102, 58, 150, 151, 151, 123, 177, 201, 140, 205, 217, 222, 67, 114>>,
      <<83, 74, 74, 142, 175, 205, 132, 137, 175, 50, 53, 109, 90, 122, 37, 248,
        140, 112, 207, 224, 68, 133, 57, 167, 196, 41, 100, 193, 184, 151, 163, 89>>,
      <<161, 138, 196, 230, 251, 211, 252, 2, 74, 7, 162, 29, 175, 186, 195, 125,
        130, 140, 168, 160, 74, 14, 52, 243, 104, 241, 236, 84, 224, 212, 255, 251>>,
      <<243, 178, 206, 26, 72, 123, 200, 135, 71, 78, 133, 146, 127, 164, 188, 202,
        79, 63, 42, 178, 233, 239, 83, 11, 49, 244, 132, 68, 127, 30, 101, 38>>,
      <<121, 247, 146, 143, 61, 235, 116, 54, 214, 225, 16, 223, 174, 55, 232, 248,
        14, 169, 198, 95, 85, 234, 132, 235, 68, 152, 149, 182, 59, 197, 144, 158>>,
      <<211, 68, 118, 82, 187, 138, 95, 187, 41, 200, 84, 35, 102, 109, 100, 90,
        80, 193, 45, 71, 185, 176, 55, 210, 224, 227, 38, 239, 9, 34, 171, 234>>,
      <<128, 122, 229, 243, 141, 180, 123, 255, 139, 9, 179, 122, 216, 3, 203, 16,
        239, 81, 71, 86, 122, 137, 163, 58, 102, 187, 50, 130, 223, 74, 217, 102>>,
      <<228, 46, 229, 242, 218, 54, 112, 15, 219, 222, 21, 163, 145, 188, 141, 217,
        28, 142, 192, 172, 50, 34, 166, 15, 12, 129, 20, 217, 219, 213, 34, 14>>,
      <<38, 152, 10, 155, 247, 219, 167, 148, 189, 20, 234, 233, 13, 189, 163, 65,
        9, 211, 127, 102, 149, 12, 22, 204, 231, 184, 125, 255, 212, 83, 91, 64>>,
      <<180, 219, 58, 189, 201, 216, 200, 139, 81, 170, 194, 178, 211, 209, 78, 116,
        103, 139, 50, 239, 65, 58, 147, 84, 145, 17, 9, 233, 207, 163, 210, 233>>,
      <<209, 179, 112, 127, 189, 198, 162, 45, 22, 233, 91, 246, 185, 16, 100, 111,
        93, 156, 43, 62, 216, 27, 214, 55, 212, 84, 255, 185, 187, 9, 72, 228>>,
      <<74, 166, 137, 41, 9, 227, 105, 147, 59, 159, 27, 171, 193, 5, 25, 18,
        30, 45, 253, 16, 66, 85, 31, 107, 155, 221, 78, 174, 81, 241, 240, 194>>,
      <<187, 69, 10, 60, 100, 236, 251, 122, 149, 25, 61, 151, 212, 163, 54, 100,
        46, 46, 79, 191, 160, 12, 96, 166, 13, 122, 153, 188, 163, 22, 129, 93>>,
      <<242, 122, 22, 98, 96, 219, 169, 28, 121, 162, 32, 85, 219, 229, 129, 64,
        6, 21, 143, 213, 212, 41, 214, 247, 196, 218, 177, 82, 129, 186, 219, 69>>,
      <<195, 226, 205, 31, 184, 228, 218, 119, 209, 210, 54, 243, 114, 234, 131, 202,
        122, 242, 59, 38, 7, 198, 224, 61, 150, 68, 87, 89, 20, 222, 240, 164>>,
      <<40, 163, 211, 9, 226, 228, 150, 246, 142, 96, 200, 241, 58, 69, 80, 222,
        180, 152, 29, 170, 116, 139, 212, 22, 209, 108, 3, 65, 18, 109, 238, 9>>,
      <<140, 85, 216, 231, 115, 221, 99, 53, 223, 22, 118, 49, 145, 153, 43, 203,
        192, 200, 195, 241, 97, 132, 197, 195, 70, 196, 81, 14, 185, 30, 159, 117>>,
      <<155, 15, 60, 186, 27, 159, 246, 16, 44, 114, 141, 131, 94, 126, 202, 78,
        58, 131, 175, 70, 205, 148, 62, 14, 80, 181, 193, 144, 182, 168, 135, 120>>,
      <<154, 102, 161, 51, 111, 250, 154, 193, 43, 129, 109, 114, 71, 215, 201, 254,
        204, 182, 190, 70, 188, 64, 25, 215, 123, 199, 70, 199, 75, 41, 143, 203>>,
      <<162, 113, 52, 60, 123, 26, 93, 202, 18, 142, 25, 245, 177, 135, 74, 53,
        92, 225, 36, 57, 131, 139, 124, 2, 194, 46, 56, 218, 90, 227, 126, 244>>,
      <<197, 171, 35, 232, 168, 224, 43, 240, 164, 43, 51, 92, 234, 176, 192, 233,
        87, 160, 245, 148, 177, 202, 87, 248, 173, 201, 133, 217, 147, 27, 60, 72>>,
      <<189, 182, 130, 14, 194, 110, 158, 132, 205, 126, 57, 34, 158, 48, 19, 195,
        241, 108, 176, 238, 171, 77, 97, 105, 235, 131, 221, 218, 237, 253, 80, 141>>,
      <<138, 131, 102, 95, 55, 152, 114, 127, 20, 249, 42, 208, 230, 201, 159, 218,
        176, 142, 231, 49, 214, 205, 100, 76, 19, 18, 35, 253, 47, 79, 237, 42>>
    >>

Sha256Pairs ==
    <<
      <<1, 1,
        <<72, 138, 213, 158, 254, 175, 174, 106, 240, 190, 147, 40, 3, 182, 84, 112,
          185, 8, 195, 51, 119, 244, 255, 153, 170, 209, 253, 140, 104, 196, 244, 99>>>>,
      <<1, 2,
        <<224, 94, 210, 155, 155, 187, 6, 93, 135, 183, 124, 10, 231, 97, 127, 86,
          71, 106, 184, 195, 89, 93, 172, 188, 150, 192, 206, 255, 200, 142, 152, 235>>>>,
      <<2, 1,
        <<99, 117, 250, 117, 212, 99, 53, 77, 232, 116, 64, 203, 37, 186, 57, 184,
          247, 7, 169, 54, 225, 49, 37, 118, 14, 40, 136, 212, 178, 235, 202, 39>>>>,
      <<2, 2,
        <<68, 60, 235, 108, 254, 232, 205, 146, 51, 86, 6, 213, 62, 2, 93, 112,
          8, 234, 187, 238, 247, 20, 76, 175, 238, 16, 223, 195, 34, 238, 3, 124>>>>,
      <<1, 3,
        <<34, 92, 193, 84, 110, 65, 213, 183, 229, 10, 153, 15, 187, 84, 236, 134,
          132, 251, 87, 222, 220, 208, 242, 209, 73, 86, 48, 253, 241, 174, 3, 148>>>>,
      <<2, 3,
        <<178, 16, 46, 67, 122, 115, 217, 188, 162, 87, 56, 38, 158, 51, 90, 156,
          172, 245, 56, 234, 74, 110, 90, 86, 222, 184, 229, 34, 29, 162, 72, 82>>>>,
      <<3, 1,
        <<184, 84, 110, 92, 249, 98, 83, 6, 58, 121, 90, 59, 111, 242, 144, 79,
          18, 249, 243, 170, 223, 153, 248, 136, 57, 177, 110, 242, 153, 18, 104, 241>>>>,
      <<3, 2,
        <<93, 143, 186, 179, 251, 184, 230, 220, 172, 217, 163, 235, 162, 112, 209, 0,
          227, 251, 50, 165, 146, 129, 68, 242, 204, 78, 109, 249, 255, 44, 48, 151>>>>,
      <<3, 3,
        <<72, 250, 170, 22, 208, 144, 221, 25, 174, 240, 164, 148, 221, 207, 215, 3,
          63, 105, 9, 27, 113, 167, 227, 169, 33, 112, 17, 171, 30, 162, 88, 157>>>>,
      <<1, 4,
        <<68, 136, 218, 13, 146, 170, 246, 61, 138, 63, 245, 27, 206, 204, 61, 72,
          34, 118, 50, 218, 168, 46, 184, 113, 0, 247, 61, 205, 174, 213, 103, 188>>>>,
      <<2, 4,
        <<165, 80, 66, 99, 164, 12, 62, 119, 251, 101, 182, 236, 152, 182, 83, 75,
          56, 46, 74, 139, 72, 93, 105, 206, 231, 188, 88, 180, 221, 230, 67, 234>>>>,
      <<3, 4,
        <<122, 0, 247, 136, 32, 94, 154, 213, 21, 48, 233, 0, 14, 170, 49, 53,
          58, 217, 31, 35, 26, 236, 212, 245, 208, 152, 242, 136, 202, 252, 158, 243>>>>,
      <<4, 1,
        <<113, 184, 42, 117, 65, 88, 236, 190, 71, 241, 190, 186, 110, 163, 167, 5,
          216, 47, 79, 181, 127, 229, 82, 116, 242, 19, 73, 18, 94, 233, 95, 147>>>>,
      <<4, 2,
        <<43, 55, 41, 95, 144, 125, 125, 44, 118, 19, 136, 74, 188, 61, 212, 144,
          46, 166, 229, 88, 187, 118, 112, 185, 229, 107, 52, 222, 34, 184, 145, 223>>>>,
      <<4, 3,
        <<80, 174, 150, 182, 122, 87, 211, 109, 84, 48, 47, 110, 102, 112, 39, 26,
          209, 213, 215, 197, 128, 234, 86, 241, 111, 235, 212, 114, 49, 103, 167, 7>>>>,
      <<4, 4,
        <<93, 40, 11, 56, 148, 113, 5, 255, 216, 114, 33, 99, 194, 18, 225, 127,
          107, 11, 183, 76, 174, 134, 207, 116, 176, 165, 100, 237, 218, 74, 2, 11>>>>,
      <<1, 5,
        <<46, 87, 84, 190, 11, 28, 14, 74, 45, 39, 223, 168, 249, 111, 200, 98,
          234, 130, 161, 155, 48, 107, 170, 243, 184, 209, 88, 160, 15, 152, 219, 143>>>>,
      <<2, 5,
        <<10, 13, 2, 22, 49, 54, 125, 253, 253, 161, 184, 254, 232, 34, 207, 9,
          39, 250, 37, 26, 87, 214, 10, 124, 39, 176, 76, 30, 151, 197, 232, 133>>>>,
      <<3, 5,
        <<58, 154, 138, 160, 205, 48, 41, 37, 105, 39, 204, 171, 88, 166, 223, 197,
          169, 223, 191, 162, 63, 103, 28, 149, 94, 146, 236, 120, 107, 173, 206, 232>>>>,
      <<4, 5,
        <<253, 220, 241, 159, 224, 40, 129, 132, 58, 119, 175, 151, 33, 171, 111, 159,
          194, 41, 199, 22, 107, 149, 38, 40, 247, 112, 189, 10, 206, 24, 81, 164>>>>,
      <<5, 1,
        <<214, 227, 33, 188, 50, 190, 56, 242, 56, 8, 207, 197, 69, 159, 197, 239,
          231, 138, 248, 134, 234, 53, 117, 35, 0, 100, 69, 42, 194, 82, 101, 126>>>>,
      <<5, 2,
        <<87, 184, 56, 56, 22, 44, 140, 121, 138, 82, 45, 118, 83, 236, 212, 229,
          65, 129, 179, 218, 255, 233, 157, 171, 158, 208, 205, 23, 146, 66, 182, 33>>>>,
      <<5, 3,
        <<140, 28, 129, 138, 177, 193, 175, 120, 195, 33, 245, 211, 156, 71, 254, 121,
          82, 9, 195, 204, 69, 18, 81, 68, 1, 34, 55, 244, 136, 124, 48, 86>>>>,
      <<5, 4,
        <<205, 181, 14, 197, 236, 199, 88, 193, 95, 122, 86, 1, 137, 76, 146, 174,
          43, 4, 86, 213, 84, 126, 136, 242, 235, 59, 117, 231, 139, 69, 102, 237>>>>,
      <<5, 5,
        <<87, 84, 237, 84, 37, 79, 91, 194, 59, 5, 244, 190, 157, 121, 148, 5,
          204, 111, 185, 116, 187, 251, 138, 220, 255, 31, 183, 201, 190, 244, 236, 71>>>>,
      <<1, 6,
        <<250, 241, 150, 190, 222, 5, 162, 249, 110, 107, 63, 19, 44, 20, 240, 10,
          154, 248, 243, 21, 149, 23, 68, 30, 149, 194, 81, 39, 132, 216, 123, 2>>>>,
      <<2, 6,
        <<144, 248, 146, 244, 148, 37, 100, 245, 172, 6, 144, 179, 3, 229, 156, 54,
          194, 154, 47, 204, 223, 173, 154, 118, 8, 39, 42, 253, 232, 153, 204, 172>>>>,
      <<3, 6,
        <<72, 4, 77, 50, 233, 193, 74, 90, 122, 138, 8, 96, 209, 194, 73, 170,
          85, 0, 25, 163, 153, 23, 105, 55, 154, 212, 224, 125, 95, 53, 172, 73>>>>,
      <<4, 6,
        <<54, 176, 166, 150, 252, 135, 197, 102, 116, 221, 165, 66, 208, 192, 9, 206,
          245, 124, 91, 157, 78, 157, 96, 134, 136, 111, 4, 166, 224, 61, 34, 183>>>>,
      <<5, 6,
        <<158, 123, 156, 174, 134, 55, 147, 84, 205, 154, 213, 110, 234, 10, 218, 106,
          173, 64, 91, 238, 85, 30, 22, 235, 210, 183, 227, 170, 166, 216, 6, 57>>>>,
      <<6, 1,
        <<250, 60, 165, 107, 163, 115, 62, 80, 208, 91, 190, 17, 190, 26, 224, 36,
          72, 234, 126, 41, 99, 200, 148, 214, 201, 240, 216, 80, 31, 154, 91, 44>>>>,
      <<6, 2,
        <<17, 110, 161, 254, 115, 249, 148, 223, 205, 53, 148, 222, 41, 168, 26, 226,
          138, 44, 135, 27, 174, 81, 178, 244, 240, 59, 115, 235, 87, 65, 254, 142>>>>,
      <<6, 3,
        <<34, 148, 140, 65, 210, 145, 199, 13, 141, 71, 247, 227, 145, 213, 254, 56,
          45, 167, 185, 46, 119, 74, 26, 158, 66, 242, 104, 136, 78, 43, 162, 113>>>>,
      <<6, 4,
        <<186, 236, 90, 27, 13, 103, 189, 110, 134, 231, 95, 190, 209, 235, 9, 225,
          9, 197, 95, 50, 10, 212, 228, 235, 75, 93, 189, 79, 144, 211, 185, 108>>>>,
      <<6, 5,
        <<240, 154, 180, 153, 145, 209, 109, 36, 132, 103, 231, 153, 9, 237, 133, 65,
          235, 95, 241, 8, 169, 207, 218, 217, 225, 182, 186, 135, 228, 143, 33, 214>>>>,
      <<6, 6,
        <<129, 150, 17, 68, 156, 206, 26, 182, 49, 242, 155, 7, 206, 225, 149, 221,
          108, 137, 121, 40, 23, 161, 229, 97, 170, 108, 223, 224, 250, 172, 205, 64>>>>,
      <<1, 7,
        <<86, 159, 196, 181, 83, 149, 207, 4, 222, 25, 57, 164, 159, 49, 116, 83,
          108, 37, 59, 209, 232, 247, 195, 147, 205, 163, 213, 227, 100, 129, 89, 178>>>>,
      <<2, 7,
        <<57, 150, 242, 34, 183, 142, 79, 26, 235, 225, 142, 104, 157, 144, 130, 122,
          71, 144, 139, 39, 191, 175, 119, 216, 33, 21, 219, 136, 108, 224, 211, 129>>>>,
      <<3, 7,
        <<194, 33, 25, 113, 63, 232, 182, 70, 143, 234, 13, 242, 229, 229, 70, 163,
          9, 4, 51, 251, 196, 69, 46, 234, 141, 217, 147, 95, 150, 103, 65, 25>>>>,
      <<4, 7,
        <<68, 13, 245, 151, 81, 226, 16, 93, 189, 6, 48, 225, 83, 95, 238, 117,
          61, 21, 175, 110, 35, 92, 194, 115, 82, 31, 49, 200, 195, 168, 147, 37>>>>,
      <<5, 7,
        <<254, 127, 10, 115, 140, 140, 96, 134, 87, 73, 156, 69, 178, 166, 45, 85,
          175, 168, 121, 190, 109, 72, 89, 226, 149, 221, 77, 22, 71, 190, 21, 54>>>>,
      <<6, 7,
        <<205, 190, 36, 14, 224, 249, 103, 38, 50, 112, 210, 133, 162, 87, 73, 65,
          157, 206, 239, 193, 42, 213, 65, 88, 4, 81, 224, 251, 175, 130, 75, 52>>>>,
      <<7, 1,
        <<189, 152, 188, 197, 255, 252, 75, 220, 92, 91, 85, 92, 119, 137, 113, 35,
          31, 83, 193, 248, 69, 102, 96, 189, 79, 16, 181, 149, 113, 219, 164, 213>>>>,
      <<7, 2,
        <<218, 162, 97, 72, 176, 148, 0, 184, 58, 136, 179, 223, 70, 80, 4, 38,
          161, 135, 103, 7, 197, 247, 249, 211, 25, 125, 177, 248, 166, 150, 11, 130>>>>,
      <<7, 3,
        <<74, 112, 254, 154, 181, 77, 209, 203, 11, 35, 76, 180, 124, 173, 177, 143,
          109, 206, 53, 221, 117, 186, 61, 63, 248, 177, 175, 255, 253, 171, 148, 232>>>>,
      <<7, 4,
        <<37, 161, 179, 29, 149, 113, 197, 185, 9, 24, 137, 6, 13, 77, 213, 182,
          209, 173, 113, 20, 245, 124, 189, 118, 105, 201, 59, 165, 170, 94, 61, 44>>>>,
      <<7, 5,
        <<228, 52, 237, 143, 226, 204, 39, 253, 150, 181, 212, 101, 194, 181, 162, 231,
          21, 35, 200, 29, 164, 239, 46, 39, 101, 34, 214, 231, 116, 231, 52, 11>>>>,
      <<7, 6,
        <<100, 103, 6, 122, 139, 92, 166, 247, 236, 144, 4, 98, 15, 12, 116, 72,
          125, 205, 198, 126, 132, 82, 76, 237, 162, 129, 129, 122, 20, 101, 245, 254>>>>,
      <<7, 7,
        <<34, 18, 215, 62, 49, 119, 188, 232, 27, 223, 30, 156, 104, 52, 23, 4,
          155, 217, 86, 13, 166, 56, 140, 236, 154, 242, 18, 206, 12, 49, 16, 176>>>>,
      <<1, 8,
        <<117, 148, 78, 156, 27, 83, 201, 24, 138, 135, 42, 25, 100, 70, 164, 156,
          168, 86, 47, 2, 108, 161, 162, 109, 217, 158, 58, 163, 217, 87, 96, 244>>>>,
      <<2, 8,
        <<152, 168, 92, 127, 247, 28, 143, 161, 7, 231, 82, 201, 151, 61, 31, 223,
          99, 53, 180, 245, 71, 42, 175, 36, 63, 94, 76, 2, 43, 117, 81, 233>>>>,
      <<3, 8,
        <<32, 26, 169, 8, 45, 11, 224, 157, 117, 25, 229, 67, 31, 206, 21, 114,
          121, 20, 148, 212, 50, 173, 81, 48, 189, 29, 191, 109, 181, 80, 156, 55>>>>,
      <<4, 8,
        <<132, 75, 8, 186, 232, 170, 69, 122, 73, 56, 246, 210, 0, 53, 86, 174,
          111, 44, 235, 28, 130, 116, 53, 93, 252, 165, 69, 226, 104, 141, 250, 105>>>>,
      <<5, 8,
        <<4, 0, 212, 85, 101, 104, 79, 30, 126, 171, 83, 247, 108, 158, 181, 64,
          90, 152, 145, 98, 182, 247, 220, 47, 48, 44, 136, 208, 69, 208, 138, 209>>>>,
      <<6, 8,
        <<19, 64, 74, 181, 76, 147, 248, 190, 237, 204, 182, 94, 71, 12, 138, 142,
          145, 108, 105, 245, 40, 0, 138, 73, 30, 227, 168, 205, 234, 149, 55, 29>>>>,
      <<7, 8,
        <<45, 218, 232, 91, 33, 54, 76, 31, 90, 84, 219, 26, 137, 98, 53, 117,
          174, 90, 190, 26, 128, 123, 108, 59, 86, 239, 249, 16, 206, 159, 61, 80>>>>,
      <<8, 1,
        <<86, 56, 68, 191, 61, 36, 180, 46, 22, 138, 186, 66, 111, 40, 226, 68,
          67, 167, 240, 139, 198, 184, 137, 54, 154, 74, 38, 18, 166, 96, 91, 57>>>>,
      <<8, 2,
        <<195, 218, 229, 155, 95, 101, 190, 165, 157, 168, 138, 5, 60, 156, 166, 242,
          198, 24, 64, 138, 14, 121, 72, 119, 28, 248, 248, 190, 68, 112, 148, 69>>>>,
      <<8, 3,
        <<53, 118, 26, 183, 176, 190, 72, 126, 229, 177, 22, 30, 120, 168, 135, 207,
          126, 86, 149, 16, 82, 229, 36, 72, 4, 12, 129, 147, 152, 133, 109, 22>>>>,
      <<8, 4,
        <<96, 4, 65, 112, 104, 143, 86, 207, 142, 106, 250, 106, 164, 197, 27, 114,
          121, 182, 161, 159, 222, 196, 1, 67, 190, 104, 172, 185, 58, 108, 150, 158>>>>,
      <<8, 5,
        <<139, 174, 128, 36, 254, 255, 21, 12, 3, 169, 219, 206, 214, 118, 3, 120,
          250, 130, 45, 4, 149, 20, 176, 125, 151, 46, 90, 68, 186, 86, 172, 97>>>>,
      <<8, 6,
        <<140, 19, 197, 179, 124, 201, 27, 89, 122, 195, 255, 51, 248, 1, 98, 139,
          74, 70, 0, 235, 169, 126, 238, 6, 135, 241, 75, 182, 89, 74, 66, 60>>>>,
      <<8, 7,
        <<28, 175, 133, 247, 113, 121, 98, 67, 233, 225, 46, 104, 127, 193, 19, 163,
          234, 91, 46, 174, 170, 208, 116, 193, 177, 52, 229, 56, 69, 13, 176, 217>>>>,
      <<8, 8,
        <<185, 142, 220, 201, 154, 102, 193, 3, 13, 147, 170, 94, 172, 93, 171, 148,
          234, 87, 147, 123, 141, 13, 107, 87, 170, 118, 255, 48, 172, 19, 50, 120>>>>,
      <<1, 9,
        <<32, 152, 113, 97, 223, 197, 198, 88, 72, 210, 191, 153, 102, 25, 189, 178,
          112, 24, 200, 45, 96, 112, 82, 196, 82, 164, 160, 155, 70, 156, 201, 51>>>>,
      <<2, 9,
        <<44, 28, 112, 47, 254, 216, 166, 215, 4, 81, 41, 34, 216, 184, 175, 28,
          1, 162, 204, 237, 234, 120, 146, 229, 28, 240, 15, 31, 205, 230, 81, 41>>>>,
      <<3, 9,
        <<175, 211, 172, 141, 102, 224, 112, 75, 182, 246, 164, 164, 136, 249, 109, 95,
          35, 40, 30, 137, 56, 108, 149, 184, 76, 63, 26, 33, 166, 33, 243, 151>>>>,
      <<4, 9,
        <<160, 45, 139, 29, 89, 48, 17, 116, 67, 235, 220, 90, 172, 222, 47, 33,
          121, 101, 234, 38, 95, 57, 142, 200, 244, 216, 133, 213, 109, 89, 242, 230>>>>,
      <<5, 9,
        <<255, 56, 154, 34, 80, 198, 235, 231, 112, 176, 78, 170, 54, 17, 45, 204,
          22, 50, 104, 82, 82, 152, 179, 83, 132, 200, 241, 19, 94, 49, 85, 25>>>>,
      <<6, 9,
        <<212, 218, 81, 162, 129, 80, 32, 183, 46, 180, 139, 17, 208, 46, 37, 60,
          64, 158, 44, 29, 13, 46, 189, 0, 200, 52, 20, 253, 6, 218, 232, 58>>>>,
      <<7, 9,
        <<49, 20, 243, 20, 218, 137, 74, 95, 247, 33, 106, 43, 180, 153, 88, 218,
          58, 20, 139, 51, 181, 197, 183, 34, 106, 6, 58, 61, 35, 65, 40, 160>>>>,
      <<8, 9,
        <<204, 203, 235, 68, 24, 63, 226, 72, 21, 249, 237, 10, 121, 252, 184, 117,
          81, 21, 165, 117, 227, 237, 23, 156, 135, 238, 138, 179, 32, 109, 118, 73>>>>,
      <<9, 1,
        <<139, 132, 97, 67, 26, 227, 241, 196, 57, 224, 51, 229, 109, 1, 195, 83,
          252, 194, 145, 246, 226, 192, 8, 159, 219, 214, 24, 35, 252, 173, 4, 114>>>>,
      <<9, 2,
        <<193, 75, 164, 85, 236, 178, 237, 172, 184, 11, 77, 167, 183, 162, 131, 204,
          165, 108, 252, 41, 4, 103, 159, 146, 6, 133, 213, 232, 242, 145, 140, 126>>>>,
      <<9, 3,
        <<204, 172, 248, 129, 191, 26, 228, 11, 242, 20, 110, 103, 251, 23, 167, 181,
          164, 27, 233, 138, 127, 210, 230, 46, 144, 241, 90, 147, 33, 184, 243, 202>>>>,
      <<9, 4,
        <<28, 211, 161, 36, 239, 73, 171, 226, 206, 32, 185, 28, 204, 229, 234, 154,
          162, 194, 75, 220, 111, 189, 209, 107, 26, 194, 179, 154, 86, 0, 43, 252>>>>,
      <<9, 5,
        <<220, 62, 50, 79, 56, 15, 225, 100, 229, 174, 187, 141, 5, 23, 89, 223,
          53, 218, 131, 252, 93, 174, 92, 226, 221, 110, 177, 81, 20, 209, 106, 106>>>>,
      <<9, 6,
        <<2, 202, 121, 55, 164, 240, 255, 20, 255, 148, 166, 213, 174, 0, 164, 102,
          213, 147, 59, 237, 90, 212, 138, 254, 189, 211, 70, 250, 114, 176, 38, 250>>>>,
      <<9, 7,
        <<243, 141, 14, 36, 156, 178, 11, 153, 202, 30, 223, 147, 255, 18, 50, 107,
          245, 196, 226, 18, 174, 197, 51, 109, 36, 58, 108, 166, 23, 109, 59, 205>>>>,
      <<9, 8,
        <<120, 21, 128, 11, 26, 236, 129, 20, 254, 105, 6, 192, 26, 238, 41, 252,
          146, 156, 64, 21, 201, 95, 133, 37, 140, 147, 68, 91, 28, 210, 112, 208>>>>,
      <<9, 9,
        <<179, 13, 9, 221, 121, 173, 188, 152, 42, 228, 186, 80, 22, 182, 56, 207,
          40, 197, 53, 152, 8, 132, 217, 75, 27, 54, 193, 104, 65, 135, 228, 38>>>>,
      <<1, 10,
        <<216, 5, 104, 74, 229, 9, 34, 252, 242, 93, 165, 29, 51, 55, 238, 96,
          144, 98, 2, 191, 177, 254, 133, 78, 148, 94, 14, 229, 123, 24, 188, 91>>>>,
      <<2, 10,
        <<6, 40, 245, 131, 106, 114, 14, 30, 186, 48, 98, 22, 217, 185, 138, 153,
          46, 50, 99, 48, 215, 237, 244, 89, 52, 20, 71, 205, 122, 29, 135, 166>>>>,
      <<3, 10,
        <<179, 127, 22, 35, 78, 67, 111, 11, 222, 50, 49, 166, 162, 17, 147, 0,
          133, 67, 157, 162, 159, 78, 202, 199, 9, 143, 228, 202, 184, 9, 157, 118>>>>,
      <<4, 10,
        <<56, 173, 106, 72, 220, 177, 115, 247, 125, 32, 239, 80, 109, 238, 123, 126,
          170, 174, 100, 168, 102, 111, 186, 130, 153, 252, 100, 119, 241, 44, 183, 68>>>>,
      <<5, 10,
        <<67, 24, 14, 193, 211, 40, 36, 176, 208, 190, 173, 251, 39, 230, 15, 9,
          53, 225, 190, 88, 250, 31, 95, 104, 3, 94, 95, 12, 20, 250, 214, 178>>>>,
      <<6, 10,
        <<37, 98, 164, 222, 26, 201, 232, 130, 14, 246, 28, 35, 223, 178, 135, 111,
          27, 85, 205, 29, 15, 79, 20, 121, 214, 92, 83, 225, 249, 228, 5, 16>>>>,
      <<7, 10,
        <<21, 129, 236, 31, 174, 114, 66, 165, 29, 160, 130, 124, 242, 75, 97, 61,
          161, 193, 82, 47, 184, 23, 1, 255, 195, 222, 103, 178, 158, 109, 43, 252>>>>,
      <<8, 10,
        <<120, 67, 166, 188, 191, 174, 48, 154, 94, 76, 119, 106, 203, 79, 44, 227,
          135, 247, 170, 83, 254, 102, 254, 62, 124, 233, 137, 49, 201, 208, 32, 40>>>>,
      <<9, 10,
        <<137, 149, 158, 223, 136, 231, 119, 170, 203, 72, 38, 230, 6, 41, 141, 228,
          125, 241, 241, 116, 22, 247, 221, 58, 109, 85, 166, 84, 55, 66, 64, 169>>>>,
      <<10, 1,
        <<153, 47, 143, 230, 247, 7, 66, 0, 171, 19, 70, 86, 33, 79, 224, 152,
          249, 3, 238, 56, 188, 177, 107, 93, 190, 225, 109, 84, 20, 67, 226, 145>>>>,
      <<10, 2,
        <<137, 131, 248, 168, 88, 114, 85, 23, 170, 112, 122, 239, 116, 245, 27, 179,
          167, 162, 15, 147, 62, 254, 109, 103, 78, 17, 158, 191, 52, 164, 108, 204>>>>,
      <<10, 3,
        <<79, 142, 66, 164, 158, 225, 193, 223, 158, 39, 98, 130, 108, 2, 80, 133,
          189, 140, 198, 45, 72, 138, 48, 119, 196, 8, 40, 132, 185, 74, 53, 56>>>>,
      <<10, 4,
        <<3, 138, 20, 104, 240, 169, 215, 57, 32, 113, 48, 217, 198, 58, 50, 167,
          47, 118, 221, 132, 53, 110, 226, 81, 175, 195, 88, 18, 68, 226, 182, 40>>>>,
      <<10, 5,
        <<153, 217, 95, 209, 88, 168, 32, 43, 93, 161, 4, 190, 8, 61, 3, 85,
          13, 64, 177, 247, 236, 175, 240, 209, 225, 90, 201, 206, 6, 162, 50, 31>>>>,
      <<10, 6,
        <<129, 49, 125, 86, 206, 48, 170, 182, 33, 113, 195, 91, 99, 194, 157, 80,
          123, 184, 129, 19, 72, 198, 180, 9, 47, 5, 98, 139, 168, 187, 102, 113>>>>,
      <<10, 7,
        <<174, 95, 200, 30, 63, 109, 168, 186, 248, 175, 220, 122, 91, 220, 188, 137,
          128, 12, 182, 92, 162, 110, 105, 27, 72, 143, 8, 74, 180, 52, 174, 140>>>>,
      <<10, 8,
        <<248, 110, 1, 160, 211, 22, 49, 2, 226, 144, 235, 102, 156, 210, 5, 57,
          160, 175, 124, 132, 108, 252, 41, 217, 178, 195, 5, 2, 152, 112, 109, 173>>>>,
      <<10, 9,
        <<168, 60, 162, 75, 237, 49, 127, 151, 94, 182, 155, 50, 71, 17, 214, 175,
          7, 24, 136, 150, 249, 224, 48, 153, 80, 82, 240, 77, 178, 96, 55, 239>>>>,
      <<10, 10,
        <<92, 123, 11, 152, 179, 49, 155, 48, 206, 124, 14, 169, 109, 195, 230, 99,
          77, 4, 7, 100, 214, 207, 211, 87, 24, 185, 241, 83, 68, 201, 15, 130>>>>,
      <<1, 11,
        <<191, 14, 66, 34, 122, 238, 18, 225, 118, 116, 200, 126, 46, 197, 214, 51,
          148, 9, 55, 128, 186, 12, 221, 145, 114, 3, 57, 128, 226, 91, 106, 223>>>>,
      <<2, 11,
        <<43, 184, 185, 102, 29, 159, 202, 199, 190, 200, 235, 180, 202, 101, 239, 227,
          97, 90, 194, 24, 35, 69, 48, 12, 235, 244, 181, 105, 25, 228, 66, 91>>>>,
      <<3, 11,
        <<167, 159, 67, 242, 91, 176, 205, 72, 231, 94, 75, 180, 63, 22, 47, 207,
          9, 194, 164, 121, 66, 169, 95, 65, 62, 9, 129, 173, 84, 146, 223, 111>>>>,
      <<4, 11,
        <<19, 24, 12, 215, 224, 49, 48, 195, 130, 71, 154, 214, 71, 225, 229, 97,
          193, 103, 170, 174, 144, 43, 95, 166, 44, 226, 77, 178, 229, 253, 116, 65>>>>,
      <<5, 11,
        <<98, 95, 86, 231, 31, 185, 232, 200, 97, 54, 149, 230, 89, 47, 199, 93,
          229, 246, 103, 214, 193, 216, 103, 11, 150, 128, 152, 131, 100, 65, 133, 44>>>>,
      <<6, 11,
        <<136, 105, 43, 183, 81, 215, 89, 205, 183, 107, 198, 248, 57, 192, 225, 248,
          152, 108, 190, 218, 140, 65, 99, 7, 145, 177, 187, 23, 246, 206, 117, 99>>>>,
      <<7, 11,
        <<88, 33, 217, 133, 156, 60, 94, 56, 72, 118, 110, 182, 12, 72, 120, 65,
          121, 66, 109, 63, 16, 30, 9, 13, 173, 131, 41, 15, 152, 207, 222, 193>>>>,
      <<8, 11,
        <<143, 102, 118, 207, 231, 32, 20, 215, 150, 227, 188, 152, 106, 190, 149, 202,
          112, 227, 90, 139, 24, 13, 92, 91, 155, 212, 99, 3, 165, 19, 42, 96>>>>,
      <<9, 11,
        <<94, 191, 142, 101, 14, 7, 33, 68, 117, 255, 82, 88, 126, 114, 88, 101,
          214, 119, 150, 47, 44, 169, 145, 250, 207, 176, 229, 249, 198, 142, 50, 53>>>>,
      <<10, 11,
        <<111, 187, 90, 31, 207, 21, 99, 166, 105, 250, 210, 114, 177, 127, 12, 57,
          36, 210, 217, 186, 238, 28, 38, 60, 254, 174, 82, 59, 103, 200, 8, 151>>>>,
      <<11, 1,
        <<92, 169, 120, 47, 102, 49, 200, 238, 173, 219, 119, 167, 126, 174, 240, 14,
          86, 97, 189, 152, 68, 6, 112, 116, 18, 95, 64, 53, 143, 117, 65, 201>>>>,
      <<11, 2,
        <<205, 238, 19, 36, 20, 20, 200, 126, 176, 141, 188, 202, 202, 182, 21, 253,
          85, 175, 174, 57, 81, 128, 25, 22, 105, 57, 239, 5, 163, 86, 201, 242>>>>,
      <<11, 3,
        <<119, 123, 77, 97, 109, 97, 153, 87, 59, 231, 31, 14, 123, 203, 179, 232,
          237, 167, 150, 201, 128, 206, 33, 149, 146, 163, 218, 78, 253, 113, 84, 133>>>>,
      <<11, 4,
        <<240, 220, 254, 9, 102, 254, 240, 201, 103, 93, 98, 108, 197, 102, 71, 178,
          64, 209, 34, 86, 182, 25, 103, 175, 100, 237, 202, 84, 176, 150, 77, 142>>>>,
      <<11, 5,
        <<178, 231, 27, 10, 186, 4, 192, 30, 125, 28, 245, 15, 215, 44, 145, 245,
          25, 63, 67, 25, 151, 100, 250, 126, 132, 146, 41, 119, 167, 203, 44, 153>>>>,
      <<11, 6,
        <<4, 241, 211, 20, 42, 125, 105, 0, 136, 130, 90, 39, 43, 174, 42, 69,
          245, 169, 20, 86, 12, 93, 165, 99, 208, 111, 137, 133, 233, 16, 58, 118>>>>,
      <<11, 7,
        <<253, 102, 241, 69, 98, 23, 120, 160, 225, 200, 86, 45, 181, 31, 138, 41,
          104, 171, 13, 11, 86, 224, 24, 76, 34, 165, 106, 13, 180, 152, 49, 101>>>>,
      <<11, 8,
        <<215, 41, 18, 227, 50, 131, 53, 71, 189, 2, 72, 229, 232, 96, 203, 188,
          23, 153, 68, 148, 103, 96, 141, 248, 117, 242, 209, 151, 213, 40, 67, 142>>>>,
      <<11, 9,
        <<181, 179, 151, 56, 77, 216, 245, 43, 230, 109, 76, 119, 201, 41, 231, 57,
          73, 77, 71, 219, 217, 33, 176, 233, 202, 2, 165, 10, 70, 163, 14, 242>>>>,
      <<11, 10,
        <<216, 214, 50, 89, 51, 192, 30, 63, 94, 78, 141, 43, 238, 63, 128, 42,
          141, 211, 40, 247, 26, 199, 78, 99, 193, 86, 30, 250, 96, 154, 56, 174>>>>,
      <<11, 11,
        <<178, 59, 229, 246, 184, 174, 70, 2, 155, 124, 244, 118, 150, 153, 193, 145,
          214, 201, 29, 224, 111, 197, 188, 16, 74, 13, 140, 192, 30, 87, 248, 127>>>>,
      <<1, 12,
        <<70, 13, 22, 57, 45, 135, 6, 255, 84, 55, 192, 75, 145, 12, 218, 229,
          238, 151, 198, 137, 115, 197, 103, 158, 75, 9, 133, 21, 203, 64, 95, 166>>>>,
      <<2, 12,
        <<238, 98, 33, 146, 205, 77, 0, 152, 52, 123, 96, 3, 123, 30, 175, 216,
          224, 61, 70, 172, 98, 67, 31, 62, 158, 106, 186, 205, 0, 211, 14, 38>>>>,
      <<3, 12,
        <<235, 67, 95, 126, 244, 57, 196, 42, 186, 45, 246, 174, 122, 163, 33, 169,
          4, 61, 218, 82, 170, 176, 33, 104, 163, 163, 50, 243, 250, 227, 69, 17>>>>,
      <<4, 12,
        <<215, 53, 99, 196, 139, 34, 219, 174, 211, 172, 3, 71, 52, 139, 69, 161,
          10, 21, 139, 26, 171, 184, 21, 177, 80, 190, 253, 173, 142, 201, 54, 190>>>>,
      <<5, 12,
        <<246, 24, 112, 121, 6, 203, 115, 184, 20, 186, 28, 158, 120, 116, 69, 31,
          181, 152, 129, 249, 75, 211, 34, 104, 69, 230, 14, 105, 222, 232, 58, 31>>>>,
      <<6, 12,
        <<177, 38, 252, 144, 78, 214, 172, 253, 211, 180, 124, 171, 206, 152, 65, 69,
          200, 254, 204, 156, 41, 74, 98, 162, 187, 205, 57, 184, 124, 241, 235, 90>>>>,
      <<7, 12,
        <<51, 222, 94, 83, 42, 41, 170, 243, 60, 249, 113, 213, 59, 158, 25, 235,
          219, 167, 152, 63, 52, 154, 248, 103, 47, 159, 181, 221, 76, 131, 57, 242>>>>,
      <<8, 12,
        <<224, 89, 116, 92, 30, 121, 147, 194, 218, 134, 29, 8, 210, 89, 200, 138,
          98, 3, 151, 65, 42, 248, 192, 155, 49, 68, 27, 178, 15, 110, 0, 28>>>>,
      <<9, 12,
        <<132, 106, 0, 144, 24, 167, 149, 214, 67, 200, 208, 35, 154, 144, 244, 87,
          67, 210, 235, 140, 25, 197, 151, 28, 199, 202, 239, 139, 16, 105, 134, 5>>>>,
      <<10, 12,
        <<189, 248, 198, 98, 143, 54, 24, 77, 198, 145, 139, 88, 144, 69, 31, 74,
          216, 3, 30, 189, 79, 58, 235, 144, 13, 41, 46, 209, 170, 37, 98, 3>>>>,
      <<11, 12,
        <<208, 253, 110, 116, 171, 218, 127, 202, 235, 28, 62, 34, 200, 10, 14, 252,
          176, 118, 72, 180, 158, 131, 18, 71, 176, 123, 76, 205, 19, 11, 55, 176>>>>,
      <<12, 1,
        <<21, 153, 155, 50, 163, 31, 224, 36, 185, 14, 245, 239, 84, 55, 152, 54,
          3, 4, 142, 191, 0, 152, 161, 10, 210, 65, 252, 152, 41, 82, 31, 165>>>>,
      <<12, 2,
        <<156, 97, 95, 194, 255, 241, 83, 204, 153, 142, 58, 143, 204, 199, 169, 32,
          142, 72, 189, 254, 148, 155, 59, 117, 113, 177, 210, 114, 43, 96, 91, 220>>>>,
      <<12, 3,
        <<82, 189, 145, 223, 27, 157, 214, 129, 123, 167, 31, 247, 227, 129, 34, 183,
          123, 208, 155, 160, 18, 114, 231, 6, 24, 95, 38, 228, 52, 241, 60, 241>>>>,
      <<12, 4,
        <<75, 56, 121, 12, 25, 208, 7, 187, 146, 172, 77, 25, 136, 127, 140, 64,
          6, 59, 159, 199, 78, 37, 255, 163, 163, 58, 196, 162, 244, 70, 105, 13>>>>,
      <<12, 5,
        <<210, 139, 239, 78, 178, 240, 1, 34, 98, 184, 131, 140, 206, 157, 218, 71,
          110, 35, 103, 84, 17, 165, 120, 105, 114, 135, 74, 199, 169, 88, 46, 109>>>>,
      <<12, 6,
        <<7, 190, 45, 210, 69, 68, 115, 181, 134, 118, 81, 70, 209, 166, 2, 172,
          12, 235, 103, 164, 49, 189, 162, 110, 172, 74, 3, 12, 212, 178, 223, 113>>>>,
      <<12, 7,
        <<86, 208, 9, 84, 22, 155, 0, 46, 227, 130, 255, 187, 85, 84, 135, 102,
          236, 226, 98, 190, 86, 193, 164, 75, 85, 158, 18, 14, 203, 148, 237, 169>>>>,
      <<12, 8,
        <<194, 28, 148, 120, 78, 55, 19, 251, 0, 44, 89, 129, 98, 14, 156, 31,
          23, 176, 84, 56, 53, 155, 97, 150, 104, 72, 162, 133, 117, 36, 174, 165>>>>,
      <<12, 9,
        <<153, 139, 204, 120, 233, 97, 74, 237, 169, 199, 134, 171, 91, 31, 194, 222,
          19, 52, 92, 205, 86, 114, 249, 188, 72, 218, 75, 134, 205, 150, 73, 141>>>>,
      <<12, 10,
        <<116, 77, 244, 213, 186, 15, 83, 171, 1, 202, 224, 181, 63, 84, 195, 140,
          114, 78, 141, 75, 152, 176, 110, 32, 228, 184, 178, 126, 236, 106, 241, 33>>>>,
      <<12, 11,
        <<160, 5, 76, 252, 76, 234, 196, 206, 58, 186, 138, 217, 112, 118, 46, 173,
          81, 180, 134, 71, 134, 110, 144, 20, 28, 94, 24, 177, 148, 65, 56, 233>>>>,
      <<12, 12,
        <<0, 243, 112, 40, 74, 211, 106, 85, 161, 159, 232, 250, 64, 248, 140, 52,
          204, 39, 83, 77, 164, 174, 106, 168, 238, 210, 220, 191, 187, 195, 99, 240>>>>,
      <<12, 13,
        <<155, 15, 53, 13, 65, 85, 20, 223, 19, 146, 52, 17, 216, 143, 120, 64,
          6, 245, 162, 252, 53, 164, 28, 234, 47, 56, 186, 148, 130, 27, 75, 193>>>>,
      <<13, 12,
        <<115, 58, 115, 243, 118, 75, 58, 148, 49, 238, 196, 65, 236, 218, 177, 230,
          111, 10, 238, 248, 217, 82, 7, 134, 99, 198, 21, 8, 95, 221, 120, 99>>>>,
      <<13, 14,
        <<48, 61, 239, 54, 106, 39, 99, 125, 159, 41, 134, 220, 180, 0, 89, 104,
          95, 249, 40, 182, 105, 139, 86, 195, 232, 171, 232, 29, 246, 26, 67, 176>>>>,
      <<14, 13,
        <<46, 68, 72, 154, 195, 78, 253, 92, 4, 90, 14, 13, 171, 222, 119, 43,
          129, 198, 25, 237, 231, 212, 163, 23, 55, 104, 239, 34, 251, 23, 187, 58>>>>,
      <<14, 15,
        <<236, 169, 7, 241, 148, 124, 7, 100, 90, 110, 78, 3, 58, 156, 82, 169,
          214, 130, 136, 197, 11, 100, 225, 93, 26, 226, 82, 49, 198, 103, 218, 60>>>>,
      <<15, 14,
        <<251, 67, 91, 227, 138, 150, 110, 135, 156, 92, 223, 193, 26, 114, 74, 2,
          35, 88, 175, 177, 227, 125, 125, 37, 96, 152, 116, 73, 53, 64, 163, 236>>>>,
      <<15, 16,
        <<166, 247, 239, 214, 62, 247, 89, 107, 143, 234, 227, 200, 73, 82, 108, 108,
          186, 151, 196, 221, 84, 32, 177, 147, 38, 139, 72, 218, 77, 75, 238, 204>>>>,
      <<16, 15,
        <<165, 253, 193, 185, 80, 170, 60, 200, 102, 212, 192, 54, 138, 156, 83, 219,
          66, 46, 9, 146, 169, 98, 4, 169, 169, 61, 21, 84, 85, 71, 35, 136>>>>,
      <<16, 17,
        <<190, 60, 119, 136, 246, 192, 252, 133, 211, 49, 112, 252, 236, 26, 247, 16,
          51, 146, 115, 182, 96, 66, 44, 98, 11, 6, 195, 233, 166, 161, 81, 188>>>>,
      <<17, 16,
        <<168, 0, 120, 182, 142, 209, 154, 185, 168, 22, 37, 232, 34, 250, 6, 20,
          249, 180, 189, 20, 110, 104, 58, 174, 6, 40, 212, 201, 57, 16, 58, 22>>>>,
      <<17, 18,
        <<65, 188, 43, 142, 122, 183, 125, 133, 214, 34, 105, 165, 87, 135, 18, 39,
          189, 28, 242, 125, 121, 196, 50, 154, 138, 195, 211, 37, 99, 144, 155, 150>>>>,
      <<18, 17,
        <<206, 176, 100, 95, 97, 25, 221, 133, 19, 200, 166, 145, 140, 220, 161, 140,
          135, 60, 100, 75, 235, 52, 254, 171, 148, 197, 133, 160, 236, 172, 7, 112>>>>,
      <<18, 19,
        <<236, 143, 25, 20, 216, 234, 155, 74, 123, 76, 185, 55, 229, 210, 103, 191,
          123, 150, 42, 72, 9, 159, 50, 137, 221, 16, 137, 138, 183, 50, 203, 98>>>>,
      <<19, 18,
        <<43, 170, 217, 3, 122, 140, 31, 125, 120, 11, 101, 237, 222, 180, 61, 233,
          45, 128, 117, 219, 179, 59, 106, 49, 50, 81, 4, 62, 58, 116, 126, 148>>>>,
      <<19, 20,
        <<51, 145, 148, 25, 18, 241, 152, 96, 160, 112, 253, 56, 235, 26, 77, 51,
          88, 231, 165, 115, 201, 239, 41, 118, 245, 164, 15, 16, 22, 233, 144, 173>>>>,
      <<20, 19,
        <<9, 49, 92, 43, 213, 145, 76, 59, 250, 242, 27, 23, 234, 246, 237, 166,
          149, 91, 208, 52, 214, 252, 9, 91, 109, 49, 71, 211, 155, 213, 179, 64>>>>,
      <<20, 21,
        <<10, 153, 78, 106, 148, 68, 6, 152, 80, 195, 210, 163, 66, 67, 148, 98,
          126, 136, 244, 4, 213, 53, 228, 120, 182, 49, 170, 203, 73, 73, 98, 42>>>>,
      <<21, 20,
        <<181, 185, 89, 65, 118, 48, 216, 39, 127, 164, 6, 134, 73, 20, 169, 53,
          213, 137, 4, 27, 182, 37, 134, 38, 115, 193, 94, 147, 124, 164, 103, 81>>>>,
      <<21, 22,
        <<72, 234, 121, 12, 78, 7, 156, 230, 205, 1, 102, 3, 137, 86, 77, 126,
          88, 31, 22, 52, 87, 107, 217, 181, 166, 126, 184, 206, 235, 210, 3, 84>>>>,
      <<22, 21,
        <<19, 186, 24, 52, 105, 70, 29, 58, 13, 137, 184, 166, 27, 112, 179, 155,
          165, 236, 204, 200, 59, 217, 110, 250, 81, 31, 225, 142, 5, 229, 109, 253>>>>,
      <<22, 23,
        <<202, 20, 121, 92, 228, 118, 42, 39, 39, 25, 35, 250, 145, 180, 198, 154,
          225, 168, 0, 134, 163, 125, 124, 220, 90, 98, 140, 84, 48, 206, 165, 48>>>>,
      <<23, 22,
        <<7, 229, 188, 244, 117, 214, 162, 68, 127, 94, 228, 151, 106, 188, 11, 131,
          69, 2, 45, 66, 209, 96, 214, 17, 204, 64, 238, 70, 232, 212, 127, 61>>>>,
      <<23, 24,
        <<188, 150, 17, 219, 44, 193, 163, 187, 236, 122, 48, 245, 231, 168, 20, 9,
          25, 50, 88, 82, 109, 70, 82, 53, 61, 71, 11, 17, 253, 60, 50, 90>>>>,
      <<24, 23,
        <<196, 31, 251, 24, 33, 26, 214, 119, 66, 223, 89, 40, 26, 140, 98, 44,
          54, 203, 229, 13, 152, 71, 246, 47, 189, 219, 161, 232, 214, 199, 144, 184>>>>,
      <<25, 26,
        <<188, 58, 251, 165, 40, 32, 185, 20, 76, 168, 124, 16, 146, 124, 115, 165,
          188, 113, 45, 180, 86, 77, 103, 231, 16, 53, 70, 29, 32, 181, 168, 59>>>>,
      <<27, 28,
        <<106, 57, 183, 54, 167, 79, 108, 200, 160, 2, 236, 244, 149, 133, 228, 129,
          4, 141, 192, 196, 112, 136, 120, 14, 183, 138, 94, 86, 212, 42, 56, 38>>>>,
      <<29, 30,
        <<239, 124, 155, 43, 87, 152, 9, 200, 255, 191, 81, 20, 8, 71, 48, 76,
          144, 132, 76, 138, 223, 46, 34, 90, 253, 172, 168, 111, 227, 21, 115, 50>>>>,
      <<31, 32,
        <<172, 6, 11, 212, 18, 115, 201, 87, 57, 29, 154, 184, 177, 18, 0, 2,
          205, 201, 35, 16, 142, 71, 134, 157, 20, 71, 241, 4, 173, 64, 198, 141>>>>,
      <<1, 33,
        <<244, 67, 125, 250, 218, 57, 202, 230, 217, 221, 189, 206, 187, 197, 147, 75,
          227, 153, 2, 80, 164, 25, 232, 111, 17, 55, 109, 32, 157, 109, 254, 88>>>>,
      <<2, 33,
        <<253, 100, 14, 170, 175, 74, 24, 16, 32, 210, 221, 154, 167, 241, 93, 219,
          157, 170, 126, 153, 139, 92, 81, 94, 7, 246, 74, 32, 143, 177, 50, 157>>>>,
      <<3, 33,
        <<157, 192, 116, 145, 21, 119, 240, 216, 251, 153, 251, 135, 153, 204, 222, 243,
          194, 143, 108, 246, 92, 142, 178, 218, 147, 137, 18, 83, 90, 210, 175, 102>>>>,
      <<33, 1,
        <<128, 27, 45, 135, 81, 107, 87, 225, 124, 208, 203, 165, 23, 16, 59, 218,
          136, 158, 139, 235, 169, 95, 162, 43, 211, 52, 129, 106, 228, 91, 23, 113>>>>,
      <<33, 2,
        <<226, 121, 44, 109, 8, 163, 225, 251, 28, 218, 196, 70, 147, 82, 193, 100,
          172, 221, 35, 203, 88, 67, 40, 152, 228, 119, 236, 96, 47, 21, 124, 179>>>>,
      <<33, 3,
        <<245, 134, 163, 153, 107, 226, 100, 55, 194, 239, 244, 237, 91, 74, 239, 247,
          231, 61, 202, 39, 66, 62, 44, 66, 181, 34, 145, 162, 115, 245, 217, 123>>>>,
      <<33, 4,
        <<187, 12, 1, 145, 173, 206, 134, 35, 65, 243, 245, 182, 114, 118, 196, 62,
          86, 214, 153, 47, 8, 18, 13, 45, 141, 147, 10, 73, 235, 6, 25, 201>>>>,
      <<1, 34,
        <<24, 21, 163, 176, 245, 209, 250, 251, 222, 115, 184, 58, 225, 203, 222, 84,
          223, 71, 222, 233, 88, 146, 237, 224, 0, 187, 45, 73, 146, 4, 217, 198>>>>,
      <<2, 34,
        <<22, 22, 147, 46, 169, 177, 178, 100, 204, 137, 198, 149, 58, 56, 247, 57,
          149, 176, 188, 253, 145, 105, 115, 187, 244, 47, 9, 79, 215, 201, 172, 45>>>>,
      <<3, 34,
        <<91, 20, 247, 244, 191, 5, 127, 215, 40, 0, 237, 2, 219, 169, 22, 59,
          143, 136, 49, 222, 34, 159, 180, 82, 76, 166, 217, 57, 72, 48, 62, 103>>>>,
      <<34, 1,
        <<23, 114, 191, 254, 229, 37, 95, 42, 189, 225, 232, 104, 52, 215, 140, 26,
          83, 22, 163, 146, 114, 80, 23, 149, 97, 187, 158, 178, 58, 202, 239, 79>>>>,
      <<34, 2,
        <<245, 242, 223, 202, 213, 33, 64, 118, 59, 28, 84, 209, 197, 142, 119, 13,
          9, 225, 9, 200, 113, 161, 219, 7, 103, 100, 137, 83, 244, 77, 188, 71>>>>,
      <<34, 3,
        <<83, 84, 230, 102, 156, 12, 105, 89, 205, 77, 56, 132, 127, 155, 91, 28,
          244, 45, 110, 146, 1, 254, 243, 173, 35, 116, 79, 127, 184, 151, 157, 13>>>>,
      <<34, 4,
        <<177, 159, 93, 179, 171, 216, 143, 41, 169, 21, 34, 201, 59, 87, 217, 50,
          153, 254, 104, 145, 79, 162, 87, 127, 67, 44, 27, 57, 159, 98, 118, 221>>>>,
      <<1, 35,
        <<106, 62, 107, 217, 196, 188, 76, 150, 183, 23, 123, 92, 146, 253, 52, 130,
          123, 53, 130, 108, 115, 220, 51, 120, 101, 101, 211, 201, 33, 186, 16, 213>>>>,
      <<2, 35,
        <<108, 34, 92, 43, 164, 132, 89, 209, 45, 190, 56, 121, 107, 32, 99, 154,
          209, 238, 14, 107, 196, 216, 129, 119, 93, 121, 87, 111, 130, 142, 115, 253>>>>,
      <<3, 35,
        <<53, 101, 160, 136, 57, 58, 81, 83, 77, 81, 92, 73, 63, 62, 131, 34,
          35, 210, 110, 44, 52, 3, 62, 127, 173, 8, 227, 2, 195, 57, 255, 229>>>>,
      <<33, 35,
        <<214, 200, 146, 187, 164, 247, 249, 75, 110, 239, 193, 15, 244, 6, 197, 32,
          43, 137, 174, 39, 92, 98, 229, 140, 9, 143, 39, 137, 233, 61, 95, 154>>>>,
      <<34, 35,
        <<179, 112, 173, 5, 254, 241, 126, 81, 28, 93, 174, 247, 202, 66, 169, 187,
          211, 11, 226, 81, 112, 107, 244, 143, 23, 30, 190, 44, 150, 219, 10, 129>>>>,
      <<35, 1,
        <<134, 135, 9, 144, 181, 35, 176, 247, 110, 114, 172, 132, 132, 202, 10, 36,
          19, 140, 108, 52, 240, 123, 184, 106, 181, 123, 54, 172, 176, 244, 175, 49>>>>,
      <<35, 2,
        <<212, 4, 99, 229, 29, 201, 91, 225, 132, 9, 192, 83, 133, 144, 237, 229,
          97, 161, 114, 183, 57, 6, 180, 3, 236, 10, 227, 102, 228, 71, 103, 244>>>>,
      <<35, 3,
        <<47, 164, 174, 167, 49, 18, 158, 79, 177, 203, 116, 211, 141, 105, 187, 233,
          64, 240, 70, 195, 63, 135, 158, 229, 224, 20, 218, 78, 180, 63, 142, 216>>>>,
      <<35, 4,
        <<237, 246, 33, 129, 199, 180, 235, 246, 144, 87, 122, 229, 122, 4, 76, 156,
          91, 207, 249, 217, 174, 103, 181, 128, 203, 191, 134, 50, 126, 188, 245, 205>>>>,
      <<35, 33,
        <<9, 215, 39, 154, 35, 62, 158, 139, 15, 72, 35, 134, 180, 204, 180, 96,
          108, 159, 174, 90, 187, 63, 253, 16, 15, 23, 105, 39, 223, 15, 133, 63>>>>,
      <<35, 34,
        <<62, 11, 167, 71, 201, 151, 74, 81, 45, 129, 69, 125, 223, 94, 67, 199,
          254, 147, 251, 171, 183, 181, 8, 84, 21, 39, 69, 191, 57, 124, 155, 96>>>>,
      <<35, 35,
        <<6, 133, 45, 228, 182, 183, 154, 72, 247, 199, 191, 127, 113, 254, 220, 30,
          115, 213, 231, 151, 35, 174, 180, 59, 248, 19, 133, 139, 167, 33, 116, 184>>>>,
      <<1, 36,
        <<34, 1, 245, 212, 124, 68, 69, 39, 175, 214, 96, 238, 29, 202, 7, 103,
          88, 96, 240, 148, 76, 208, 46, 77, 107, 209, 134, 36, 95, 246, 153, 62>>>>,
      <<2, 36,
        <<139, 187, 14, 144, 122, 77, 95, 78, 235, 46, 150, 76, 251, 35, 201, 26,
          178, 173, 193, 177, 43, 238, 135, 226, 86, 8, 22, 115, 193, 74, 191, 249>>>>,
      <<3, 36,
        <<178, 241, 238, 236, 232, 152, 125, 56, 221, 77, 180, 158, 159, 29, 165, 125,
          118, 247, 247, 141, 25, 223, 197, 189, 89, 51, 39, 111, 199, 64, 83, 3>>>>,
      <<33, 36,
        <<101, 155, 85, 92, 18, 128, 156, 40, 7, 101, 193, 233, 104, 80, 168, 117,
          26, 49, 167, 231, 55, 90, 185, 20, 189, 224, 213, 106, 127, 66, 81, 164>>>>,
      <<34, 36,
        <<114, 121, 120, 131, 70, 255, 202, 247, 62, 121, 20, 41, 81, 27, 17, 117,
          158, 61, 33, 89, 20, 66, 238, 208, 78, 61, 10, 147, 175, 47, 119, 144>>>>,
      <<35, 36,
        <<216, 84, 44, 201, 181, 121, 233, 50, 215, 14, 146, 164, 213, 9, 144, 129,
          66, 47, 168, 74, 76, 44, 145, 73, 115, 239, 191, 38, 238, 52, 114, 78>>>>,
      <<36, 1,
        <<216, 155, 223, 161, 230, 243, 198, 221, 205, 35, 89, 250, 156, 100, 166, 204,
          58, 182, 129, 237, 196, 83, 50, 42, 94, 1, 133, 1, 109, 242, 41, 188>>>>,
      <<36, 2,
        <<126, 233, 89, 128, 161, 72, 114, 217, 155, 56, 44, 5, 96, 88, 227, 209,
          68, 134, 170, 0, 69, 104, 0, 242, 142, 55, 227, 22, 180, 204, 140, 85>>>>,
      <<36, 3,
        <<185, 43, 24, 229, 210, 189, 218, 125, 147, 200, 34, 141, 227, 231, 207, 178,
          9, 87, 184, 160, 255, 221, 55, 203, 157, 244, 98, 67, 131, 46, 5, 221>>>>,
      <<36, 4,
        <<109, 152, 40, 196, 77, 93, 191, 95, 82, 99, 73, 227, 127, 64, 83, 183,
          43, 75, 241, 252, 200, 241, 164, 181, 172, 149, 7, 206, 39, 254, 187, 23>>>>,
      <<36, 5,
        <<8, 141, 12, 166, 108, 158, 239, 160, 168, 35, 232, 241, 187, 141, 38, 94,
          191, 242, 198, 150, 11, 207, 221, 254, 172, 217, 16, 93, 34, 236, 23, 191>>>>,
      <<36, 6,
        <<4, 226, 94, 98, 98, 111, 100, 74, 54, 253, 216, 237, 232, 185, 182, 1,
          206, 91, 190, 221, 247, 6, 222, 224, 142, 246, 4, 163, 5, 183, 245, 115>>>>,
      <<36, 7,
        <<98, 47, 128, 161, 15, 123, 3, 42, 142, 124, 16, 86, 236, 28, 235, 190,
          0, 103, 115, 15, 1, 153, 146, 229, 35, 150, 102, 197, 118, 73, 83, 203>>>>,
      <<36, 8,
        <<87, 248, 61, 219, 254, 84, 189, 17, 28, 176, 189, 189, 41, 169, 109, 180,
          131, 100, 153, 142, 26, 169, 9, 187, 221, 68, 66, 106, 34, 126, 12, 219>>>>,
      <<36, 9,
        <<81, 142, 45, 83, 28, 247, 144, 183, 72, 66, 104, 34, 178, 9, 81, 161,
          27, 152, 204, 30, 97, 52, 89, 85, 92, 76, 66, 184, 173, 235, 146, 41>>>>,
      <<36, 33,
        <<94, 109, 173, 191, 114, 13, 97, 139, 227, 154, 28, 116, 42, 94, 250, 14,
          201, 39, 98, 57, 230, 170, 25, 215, 195, 204, 74, 186, 247, 250, 93, 220>>>>,
      <<36, 34,
        <<150, 39, 53, 251, 223, 41, 121, 55, 44, 71, 200, 198, 77, 146, 224, 175,
          121, 70, 171, 61, 0, 161, 190, 115, 159, 18, 162, 75, 248, 159, 96, 73>>>>,
      <<36, 35,
        <<203, 35, 19, 230, 118, 48, 35, 166, 56, 65, 64, 247, 186, 179, 146, 9,
          80, 203, 43, 26, 199, 48, 8, 0, 150, 170, 171, 57, 108, 85, 56, 34>>>>,
      <<36, 36,
        <<243, 115, 125, 255, 79, 20, 249, 84, 140, 102, 98, 174, 168, 84, 63, 185,
          247, 15, 193, 220, 72, 225, 27, 22, 244, 92, 156, 30, 5, 164, 179, 253>>>>,
      <<1, 37,
        <<68, 167, 67, 129, 216, 183, 228, 44, 169, 182, 112, 214, 136, 102, 18, 176,
          20, 154, 150, 57, 174, 177, 96, 228, 241, 0, 124, 244, 54, 161, 214, 85>>>>,
      <<2, 37,
        <<91, 126, 154, 190, 48, 177, 171, 227, 14, 135, 22, 193, 112, 17, 17, 169,
          164, 74, 180, 240, 246, 228, 250, 1, 196, 177, 133, 65, 139, 10, 2, 173>>>>,
      <<3, 37,
        <<236, 155, 246, 169, 152, 75, 30, 16, 76, 24, 55, 111, 135, 170, 52, 187,
          11, 149, 88, 69, 32, 104, 255, 218, 197, 101, 78, 172, 145, 186, 199, 88>>>>,
      <<4, 37,
        <<77, 101, 113, 80, 22, 5, 150, 145, 14, 32, 75, 82, 195, 0, 45, 18,
          18, 100, 194, 227, 132, 78, 119, 217, 216, 158, 14, 190, 167, 189, 78, 35>>>>,
      <<33, 37,
        <<47, 105, 190, 208, 192, 69, 242, 78, 25, 116, 77, 105, 1, 2, 202, 248,
          91, 135, 62, 48, 251, 90, 125, 11, 152, 228, 12, 150, 202, 22, 170, 242>>>>,
      <<34, 37,
        <<150, 11, 103, 193, 56, 160, 244, 158, 252, 152, 242, 249, 95, 146, 180, 107,
          220, 92, 244, 106, 130, 239, 38, 132, 234, 233, 35, 172, 109, 209, 63, 225>>>>,
      <<35, 37,
        <<112, 124, 75, 227, 195, 237, 71, 221, 156, 38, 208, 161, 239, 133, 58, 122,
          109, 75, 221, 145, 168, 118, 98, 102, 216, 215, 37, 152, 49, 213, 254, 94>>>>,
      <<36, 37,
        <<75, 240, 130, 108, 231, 252, 167, 42, 62, 132, 122, 130, 150, 104, 18, 44,
          100, 167, 239, 127, 36, 182, 110, 175, 8, 157, 179, 19, 162, 17, 191, 21>>>>,
      <<37, 1,
        <<107, 7, 183, 169, 0, 250, 55, 209, 66, 94, 88, 170, 32, 163, 60, 158,
          94, 229, 186, 174, 107, 110, 5, 191, 42, 66, 170, 192, 55, 25, 89, 147>>>>,
      <<37, 2,
        <<22, 176, 209, 157, 10, 220, 160, 53, 238, 31, 42, 175, 184, 108, 238, 36,
          10, 23, 80, 234, 127, 147, 203, 57, 123, 194, 82, 157, 248, 45, 207, 176>>>>,
      <<37, 3,
        <<183, 19, 39, 103, 25, 48, 227, 11, 195, 55, 225, 46, 29, 47, 9, 169,
          226, 187, 88, 143, 194, 2, 139, 139, 169, 144, 54, 10, 163, 13, 31, 62>>>>,
      <<37, 4,
        <<214, 224, 5, 132, 79, 146, 150, 98, 224, 217, 166, 225, 73, 210, 24, 40,
          216, 82, 82, 119, 83, 132, 166, 51, 37, 206, 28, 23, 123, 16, 58, 23>>>>,
      <<37, 33,
        <<22, 123, 149, 162, 134, 218, 87, 2, 230, 78, 253, 39, 98, 164, 56, 0,
          216, 89, 69, 168, 85, 97, 224, 234, 86, 73, 113, 125, 237, 128, 24, 106>>>>,
      <<37, 34,
        <<168, 67, 233, 202, 43, 251, 116, 231, 0, 235, 27, 76, 105, 82, 151, 229,
          249, 51, 235, 66, 22, 140, 37, 121, 213, 201, 56, 183, 122, 76, 75, 67>>>>,
      <<37, 35,
        <<171, 79, 196, 119, 166, 236, 213, 90, 220, 99, 112, 22, 76, 19, 148, 170,
          43, 194, 16, 39, 24, 158, 144, 108, 137, 57, 209, 38, 230, 135, 80, 201>>>>,
      <<37, 36,
        <<225, 99, 254, 86, 172, 230, 145, 177, 75, 114, 60, 73, 222, 106, 48, 108,
          165, 106, 120, 160, 8, 80, 146, 188, 191, 81, 109, 158, 17, 228, 161, 57>>>>,
      <<37, 37,
        <<255, 210, 68, 244, 34, 197, 86, 34, 249, 5, 191, 216, 34, 61, 142, 3,
          216, 138, 80, 175, 62, 129, 104, 162, 148, 50, 28, 202, 186, 123, 105, 132>>>>,
      <<1, 38,
        <<187, 7, 141, 62, 38, 65, 48, 73, 97, 147, 69, 216, 58, 100, 87, 43,
          84, 2, 36, 55, 73, 19, 121, 205, 80, 128, 7, 246, 71, 163, 249, 231>>>>,
      <<2, 38,
        <<79, 116, 16, 180, 51, 220, 83, 4, 26, 149, 55, 247, 175, 127, 250, 218,
          225, 92, 183, 56, 254, 161, 75, 95, 121, 247, 29, 8, 136, 155, 51, 129>>>>,
      <<3, 38,
        <<162, 72, 124, 28, 22, 82, 56, 61, 97, 213, 81, 177, 4, 228, 115, 205,
          220, 19, 218, 74, 190, 168, 174, 114, 22, 81, 209, 181, 180, 220, 107, 3>>>>,
      <<33, 38,
        <<128, 78, 226, 160, 195, 144, 27, 141, 128, 74, 203, 8, 230, 111, 234, 229,
          188, 115, 44, 179, 154, 70, 161, 74, 103, 164, 130, 12, 105, 181, 84, 147>>>>,
      <<34, 38,
        <<139, 101, 50, 201, 170, 248, 230, 165, 157, 41, 202, 65, 144, 230, 221, 0,
          19, 48, 143, 2, 131, 139, 178, 20, 188, 192, 175, 180, 248, 196, 152, 103>>>>,
      <<35, 38,
        <<141, 2, 18, 63, 254, 99, 248, 251, 180, 92, 76, 174, 124, 253, 18, 198,
          89, 73, 231, 204, 240, 174, 137, 213, 148, 205, 69, 250, 130, 147, 57, 111>>>>,
      <<36, 38,
        <<55, 65, 144, 61, 150, 43, 245, 148, 18, 152, 176, 1, 190, 62, 213, 118,
          41, 215, 86, 127, 128, 54, 183, 137, 137, 132, 215, 8, 206, 252, 181, 65>>>>,
      <<37, 38,
        <<192, 245, 102, 240, 183, 76, 114, 67, 20, 75, 182, 45, 66, 93, 9, 159,
          240, 142, 56, 134, 163, 127, 184, 22, 217, 134, 232, 205, 200, 123, 63, 24>>>>,
      <<38, 1,
        <<234, 97, 232, 112, 87, 54, 170, 84, 96, 226, 93, 130, 36, 72, 167, 25,
          174, 163, 199, 61, 244, 117, 249, 205, 187, 156, 187, 27, 244, 56, 236, 151>>>>,
      <<38, 2,
        <<101, 102, 69, 77, 113, 177, 172, 232, 95, 68, 180, 136, 168, 73, 27, 130,
          120, 131, 181, 131, 13, 68, 110, 54, 221, 55, 18, 169, 83, 20, 240, 138>>>>,
      <<38, 3,
        <<162, 193, 212, 176, 177, 240, 236, 231, 228, 78, 122, 110, 69, 131, 74, 251,
          196, 213, 158, 34, 2, 180, 18, 126, 118, 29, 23, 208, 135, 231, 147, 253>>>>,
      <<38, 4,
        <<193, 245, 123, 144, 87, 53, 188, 237, 29, 230, 185, 162, 48, 110, 76, 248,
          196, 135, 91, 123, 186, 229, 203, 141, 48, 187, 18, 82, 13, 99, 65, 130>>>>,
      <<38, 5,
        <<137, 14, 177, 144, 22, 75, 230, 163, 87, 81, 187, 142, 108, 112, 138, 237,
          249, 225, 100, 224, 62, 102, 254, 71, 60, 49, 155, 228, 237, 80, 177, 204>>>>,
      <<38, 6,
        <<97, 170, 129, 126, 150, 246, 100, 142, 92, 117, 182, 130, 122, 177, 156, 155,
          8, 234, 134, 62, 240, 48, 208, 156, 159, 205, 70, 184, 146, 149, 141, 249>>>>,
      <<38, 7,
        <<247, 61, 213, 247, 118, 96, 95, 122, 92, 51, 165, 136, 11, 38, 16, 161,
          238, 92, 18, 49, 77, 150, 236, 174, 43, 220, 80, 61, 33, 215, 211, 151>>>>,
      <<38, 8,
        <<1, 168, 169, 179, 54, 51, 210, 247, 123, 255, 222, 141, 119, 208, 117, 228,
          93, 47, 62, 60, 147, 110, 231, 41, 64, 66, 96, 51, 32, 178, 199, 180>>>>,
      <<38, 9,
        <<123, 236, 167, 35, 25, 140, 5, 236, 206, 123, 142, 198, 85, 178, 4, 210,
          202, 252, 124, 61, 60, 215, 93, 129, 211, 195, 17, 39, 15, 239, 77, 56>>>>,
      <<38, 33,
        <<248, 19, 132, 70, 238, 216, 146, 35, 158, 181, 25, 109, 39, 226, 250, 171,
          115, 36, 21, 230, 237, 52, 96, 101, 194, 85, 137, 241, 11, 63, 19, 75>>>>,
      <<38, 34,
        <<240, 61, 135, 49, 233, 220, 215, 27, 18, 78, 229, 61, 121, 182, 76, 252,
          20, 190, 233, 164, 255, 115, 59, 201, 202, 123, 106, 29, 86, 66, 181, 240>>>>,
      <<38, 35,
        <<118, 55, 99, 167, 232, 219, 33, 6, 249, 34, 119, 131, 129, 60, 169, 128,
          32, 103, 59, 9, 15, 236, 67, 5, 79, 20, 166, 200, 90, 221, 118, 67>>>>,
      <<38, 36,
        <<228, 145, 86, 39, 190, 214, 42, 146, 111, 226, 113, 128, 137, 249, 10, 28,
          27, 112, 140, 12, 151, 124, 117, 24, 52, 139, 70, 102, 234, 104, 190, 68>>>>,
      <<38, 37,
        <<121, 115, 2, 165, 41, 115, 241, 98, 166, 157, 24, 35, 217, 102, 61, 24,
          194, 88, 127, 171, 236, 53, 226, 231, 164, 121, 137, 200, 101, 36, 100, 112>>>>,
      <<38, 38,
        <<201, 252, 26, 142, 28, 202, 165, 96, 177, 97, 254, 138, 245, 73, 129, 158,
          38, 229, 165, 35, 239, 209, 5, 164, 62, 144, 254, 7, 93, 16, 214, 179>>>>,
      <<1, 39,
        <<65, 150, 222, 243, 107, 125, 143, 195, 91, 114, 105, 193, 149, 58, 225, 207,
          147, 175, 34, 34, 49, 198, 40, 110, 121, 186, 249, 168, 145, 20, 6, 217>>>>,
      <<2, 39,
        <<162, 251, 12, 72, 193, 159, 249, 54, 55, 121, 183, 180, 178, 202, 165, 167,
          32, 90, 57, 94, 87, 130, 22, 167, 245, 32, 4, 230, 32, 249, 131, 131>>>>,
      <<3, 39,
        <<209, 87, 53, 234, 23, 23, 126, 6, 157, 25, 103, 185, 125, 201, 115, 19,
          13, 166, 193, 55, 171, 106, 205, 78, 60, 39, 141, 62, 179, 130, 58, 176>>>>,
      <<4, 39,
        <<215, 157, 186, 203, 2, 8, 16, 160, 29, 183, 68, 216, 214, 127, 36, 15,
          52, 133, 105, 196, 13, 57, 248, 9, 178, 203, 86, 136, 74, 32, 67, 123>>>>,
      <<33, 39,
        <<137, 155, 203, 121, 212, 22, 58, 81, 244, 7, 129, 96, 100, 94, 46, 49,
          237, 110, 139, 36, 206, 108, 66, 221, 169, 145, 65, 243, 14, 160, 182, 81>>>>,
      <<34, 39,
        <<59, 16, 19, 77, 98, 220, 100, 9, 125, 79, 218, 142, 167, 190, 242, 24,
          110, 36, 152, 12, 26, 65, 190, 176, 58, 54, 57, 90, 122, 31, 240, 12>>>>,
      <<35, 39,
        <<190, 101, 36, 77, 83, 138, 71, 173, 11, 126, 231, 243, 120, 8, 181, 105,
          83, 230, 222, 120, 223, 92, 128, 238, 209, 163, 116, 37, 206, 160, 224, 44>>>>,
      <<36, 39,
        <<129, 150, 91, 230, 108, 189, 99, 197, 37, 106, 99, 100, 239, 107, 147, 17,
          64, 178, 231, 59, 160, 231, 115, 13, 232, 85, 88, 222, 78, 228, 1, 162>>>>,
      <<37, 39,
        <<239, 211, 193, 11, 144, 124, 167, 102, 205, 251, 220, 220, 159, 117, 116, 113,
          206, 78, 28, 188, 16, 175, 30, 13, 196, 97, 186, 97, 15, 180, 150, 158>>>>,
      <<38, 39,
        <<32, 145, 23, 209, 57, 62, 213, 68, 223, 154, 184, 103, 95, 160, 126, 55,
          104, 149, 56, 77, 194, 62, 205, 48, 89, 75, 83, 97, 243, 98, 117, 45>>>>,
      <<39, 1,
        <<145, 226, 240, 101, 215, 221, 231, 107, 144, 5, 79, 121, 70, 254, 89, 81,
          153, 8, 124, 225, 1, 183, 187, 248, 57, 194, 183, 195, 222, 206, 27, 157>>>>,
      <<39, 2,
        <<109, 8, 183, 152, 72, 165, 229, 163, 126, 59, 175, 28, 125, 88, 86, 99,
          177, 242, 235, 183, 144, 107, 82, 191, 238, 183, 26, 80, 105, 17, 122, 235>>>>,
      <<39, 3,
        <<210, 95, 104, 42, 240, 48, 238, 221, 1, 19, 135, 167, 75, 218, 40, 78,
          77, 224, 156, 18, 85, 231, 25, 245, 141, 48, 115, 233, 152, 186, 93, 78>>>>,
      <<39, 4,
        <<171, 146, 91, 109, 227, 106, 174, 177, 155, 235, 76, 2, 50, 138, 205, 3,
          174, 114, 1, 21, 131, 60, 191, 205, 108, 144, 178, 81, 224, 182, 26, 227>>>>,
      <<39, 33,
        <<184, 194, 33, 204, 132, 89, 199, 127, 139, 170, 192, 17, 139, 165, 80, 115,
          49, 95, 44, 234, 116, 205, 50, 38, 47, 160, 154, 81, 143, 3, 147, 153>>>>,
      <<39, 34,
        <<219, 169, 248, 87, 2, 218, 164, 186, 125, 37, 115, 108, 184, 101, 88, 194,
          238, 207, 80, 16, 0, 32, 182, 191, 95, 25, 0, 250, 27, 112, 131, 128>>>>,
      <<39, 35,
        <<68, 255, 73, 240, 160, 24, 124, 186, 238, 62, 74, 13, 113, 250, 137, 170,
          98, 2, 214, 184, 164, 68, 84, 93, 18, 14, 245, 219, 221, 60, 90, 5>>>>,
      <<39, 36,
        <<5, 179, 231, 159, 196, 141, 164, 121, 190, 29, 215, 132, 14, 244, 98, 136,
          216, 87, 17, 32, 242, 175, 208, 166, 238, 252, 13, 47, 142, 136, 44, 130>>>>,
      <<39, 37,
        <<193, 85, 56, 24, 200, 164, 153, 106, 96, 53, 33, 26, 222, 0, 4, 47,
          39, 168, 120, 96, 67, 46, 151, 0, 86, 51, 50, 206, 117, 68, 133, 74>>>>,
      <<39, 38,
        <<99, 30, 23, 148, 179, 38, 89, 98, 43, 243, 205, 162, 241, 203, 167, 117,
          188, 235, 160, 160, 105, 54, 75, 10, 64, 255, 50, 104, 176, 17, 212, 223>>>>,
      <<39, 39,
        <<214, 106, 41, 90, 109, 187, 188, 23, 102, 72, 69, 251, 144, 48, 81, 189,
          123, 250, 177, 31, 216, 111, 7, 37, 162, 42, 171, 76, 238, 169, 146, 75>>>>,
      <<1, 40,
        <<69, 184, 252, 70, 142, 203, 188, 117, 5, 148, 28, 202, 72, 101, 237, 173,
          230, 154, 121, 174, 104, 68, 140, 18, 202, 106, 137, 203, 149, 255, 115, 57>>>>,
      <<2, 40,
        <<42, 143, 146, 155, 0, 13, 195, 52, 92, 41, 154, 117, 120, 250, 219, 59,
          4, 242, 110, 217, 246, 129, 134, 74, 140, 49, 210, 91, 69, 217, 0, 80>>>>,
      <<3, 40,
        <<166, 183, 136, 94, 15, 80, 123, 107, 24, 22, 154, 215, 113, 140, 230, 229,
          220, 133, 255, 236, 55, 225, 48, 101, 114, 227, 184, 213, 149, 81, 231, 203>>>>,
      <<4, 40,
        <<124, 42, 88, 180, 250, 156, 236, 196, 88, 247, 135, 8, 42, 124, 8, 22,
          56, 209, 15, 183, 234, 100, 74, 213, 231, 240, 202, 152, 245, 171, 181, 142>>>>,
      <<33, 40,
        <<207, 55, 19, 245, 156, 88, 224, 243, 249, 35, 242, 158, 172, 66, 26, 5,
          208, 54, 107, 31, 205, 154, 135, 83, 71, 138, 215, 192, 87, 97, 168, 57>>>>,
      <<34, 40,
        <<21, 139, 108, 123, 89, 23, 56, 236, 214, 107, 211, 97, 170, 59, 200, 13,
          185, 177, 191, 199, 48, 132, 189, 15, 136, 60, 69, 250, 156, 207, 50, 50>>>>,
      <<35, 40,
        <<191, 170, 141, 7, 161, 145, 218, 162, 7, 70, 248, 20, 73, 161, 201, 63,
          197, 150, 247, 162, 15, 65, 171, 112, 234, 212, 135, 243, 93, 130, 182, 68>>>>,
      <<36, 40,
        <<91, 120, 110, 13, 187, 23, 193, 141, 138, 97, 160, 116, 158, 240, 254, 130,
          222, 191, 75, 199, 194, 57, 120, 225, 163, 178, 13, 167, 70, 148, 4, 130>>>>,
      <<37, 40,
        <<114, 104, 86, 79, 109, 108, 29, 216, 61, 237, 182, 7, 8, 20, 235, 79,
          198, 3, 56, 77, 149, 161, 32, 64, 50, 52, 241, 9, 150, 118, 133, 195>>>>,
      <<38, 40,
        <<30, 110, 57, 215, 68, 214, 211, 49, 208, 104, 25, 107, 161, 211, 176, 49,
          245, 210, 174, 48, 148, 213, 195, 103, 114, 141, 116, 205, 255, 33, 29, 121>>>>,
      <<39, 40,
        <<0, 179, 42, 121, 104, 163, 94, 120, 25, 110, 44, 155, 204, 62, 21, 241,
          4, 60, 186, 250, 223, 204, 170, 129, 80, 34, 45, 225, 19, 209, 109, 9>>>>,
      <<40, 1,
        <<78, 163, 222, 146, 92, 50, 39, 125, 35, 69, 169, 24, 242, 97, 75, 160,
          119, 117, 213, 186, 186, 44, 174, 223, 213, 216, 23, 93, 166, 148, 184, 200>>>>,
      <<40, 2,
        <<229, 148, 182, 202, 102, 200, 198, 105, 55, 181, 27, 141, 113, 23, 234, 235,
          50, 88, 236, 95, 154, 83, 224, 236, 44, 118, 120, 191, 253, 137, 13, 162>>>>,
      <<40, 3,
        <<147, 245, 52, 142, 82, 228, 101, 48, 139, 225, 89, 210, 227, 60, 46, 240,
          163, 233, 243, 100, 32, 43, 62, 132, 150, 192, 238, 66, 31, 23, 26, 173>>>>,
      <<40, 35,
        <<48, 111, 59, 142, 160, 233, 135, 89, 187, 99, 58, 30, 156, 186, 10, 130,
          101, 15, 172, 170, 74, 29, 214, 185, 148, 105, 182, 45, 140, 240, 236, 167>>>>,
      <<40, 36,
        <<40, 200, 39, 87, 103, 20, 8, 64, 242, 90, 162, 250, 158, 156, 198, 242,
          71, 55, 165, 89, 80, 16, 179, 72, 172, 54, 178, 107, 219, 130, 58, 48>>>>,
      <<40, 37,
        <<46, 71, 54, 91, 91, 151, 38, 26, 180, 12, 107, 191, 38, 12, 252, 175,
          19, 53, 94, 222, 182, 233, 223, 123, 209, 104, 236, 203, 215, 191, 172, 98>>>>,
      <<40, 38,
        <<251, 42, 87, 245, 177, 55, 144, 188, 124, 108, 169, 14, 171, 61, 242, 19,
          208, 165, 47, 143, 151, 189, 147, 218, 76, 224, 194, 96, 62, 137, 228, 217>>>>,
      <<40, 39,
        <<19, 5, 78, 14, 176, 161, 228, 244, 133, 89, 118, 95, 142, 195, 12, 22,
          170, 192, 21, 209, 125, 20, 69, 84, 225, 1, 106, 42, 119, 207, 206, 176>>>>,
      <<40, 40,
        <<223, 134, 97, 226, 193, 21, 110, 191, 207, 60, 121, 75, 159, 69, 112, 72,
          128, 19, 23, 201, 252, 49, 97, 128, 185, 17, 237, 118, 227, 45, 103, 189>>>>,
      <<1, 41,
        <<89, 230, 193, 119, 185, 39, 168, 81, 94, 195, 179, 128, 109, 30, 45, 108,
          7, 247, 79, 52, 34, 195, 222, 198, 9, 243, 238, 195, 75, 19, 39, 81>>>>,
      <<2, 41,
        <<154, 102, 81, 42, 242, 189, 111, 177, 109, 161, 195, 149, 223, 139, 194, 95,
          162, 232, 168, 241, 35, 14, 36, 209, 60, 96, 124, 96, 130, 4, 137, 227>>>>,
      <<3, 41,
        <<125, 203, 12, 16, 109, 199, 229, 202, 150, 118, 241, 55, 166, 2, 22, 220,
          170, 80, 180, 105, 167, 39, 151, 158, 135, 127, 205, 86, 14, 103, 77, 229>>>>,
      <<4, 41,
        <<143, 243, 51, 29, 149, 115, 70, 30, 65, 152, 124, 203, 61, 130, 125, 203,
          67, 70, 99, 74, 203, 218, 113, 224, 122, 77, 135, 32, 124, 133, 218, 254>>>>,
      <<33, 41,
        <<131, 155, 66, 203, 254, 152, 25, 181, 45, 15, 165, 130, 43, 166, 198, 233,
          210, 15, 77, 1, 155, 85, 148, 210, 157, 112, 176, 44, 157, 94, 195, 7>>>>,
      <<34, 41,
        <<9, 70, 205, 47, 167, 20, 42, 192, 194, 126, 242, 72, 103, 222, 16, 229,
          173, 232, 202, 143, 133, 60, 237, 124, 32, 199, 231, 114, 135, 177, 247, 186>>>>,
      <<35, 41,
        <<9, 125, 106, 155, 214, 144, 196, 189, 120, 118, 221, 251, 209, 17, 129, 217,
          208, 129, 151, 176, 122, 100, 0, 72, 141, 58, 187, 177, 17, 121, 107, 233>>>>,
      <<36, 41,
        <<75, 70, 172, 185, 5, 123, 227, 224, 47, 78, 133, 91, 235, 83, 53, 255,
          175, 31, 31, 184, 38, 88, 28, 85, 230, 152, 242, 60, 110, 135, 11, 145>>>>,
      <<37, 41,
        <<88, 193, 66, 24, 252, 195, 35, 218, 50, 82, 140, 126, 155, 39, 42, 245,
          86, 220, 181, 205, 9, 234, 7, 126, 183, 72, 222, 26, 224, 93, 141, 149>>>>,
      <<38, 41,
        <<68, 180, 104, 84, 17, 113, 137, 169, 46, 70, 121, 193, 167, 126, 183, 121,
          221, 108, 166, 78, 197, 217, 191, 237, 16, 78, 209, 56, 82, 246, 30, 238>>>>,
      <<39, 41,
        <<125, 196, 167, 211, 215, 252, 174, 180, 132, 24, 138, 196, 82, 185, 155, 28,
          34, 138, 32, 182, 232, 84, 215, 159, 235, 92, 47, 177, 230, 147, 221, 3>>>>,
      <<40, 41,
        <<243, 161, 12, 4, 24, 231, 118, 95, 16, 44, 104, 135, 131, 56, 30, 188,
          249, 200, 61, 137, 147, 175, 251, 249, 92, 94, 182, 40, 212, 120, 159, 63>>>>,
      <<41, 1,
        <<190, 72, 97, 46, 110, 170, 119, 6, 23, 247, 243, 67, 64, 106, 115, 97,
          228, 121, 188, 63, 49, 48, 107, 171, 57, 231, 136, 58, 47, 129, 237, 44>>>>,
      <<41, 2,
        <<206, 191, 18, 89, 126, 115, 175, 151, 178, 145, 94, 172, 8, 27, 87, 65,
          228, 242, 90, 148, 14, 60, 48, 37, 95, 18, 117, 205, 100, 18, 38, 82>>>>,
      <<41, 3,
        <<73, 176, 241, 171, 139, 138, 235, 215, 196, 219, 199, 99, 55, 110, 252, 249,
          207, 80, 94, 207, 255, 170, 102, 55, 148, 0, 18, 106, 203, 151, 215, 116>>>>,
      <<41, 33,
        <<66, 233, 129, 164, 127, 65, 105, 208, 228, 245, 253, 161, 59, 131, 0, 247,
          66, 231, 232, 227, 103, 186, 232, 177, 186, 101, 143, 11, 12, 83, 216, 81>>>>,
      <<41, 34,
        <<59, 92, 56, 216, 92, 131, 60, 196, 234, 241, 61, 196, 118, 212, 111, 0,
          9, 200, 92, 100, 174, 178, 218, 226, 214, 210, 80, 200, 203, 13, 206, 1>>>>,
      <<41, 35,
        <<195, 25, 220, 195, 182, 29, 156, 75, 33, 9, 135, 152, 144, 70, 215, 215,
          66, 213, 41, 99, 79, 176, 198, 55, 1, 235, 66, 7, 152, 1, 129, 151>>>>,
      <<41, 36,
        <<215, 50, 243, 168, 17, 47, 188, 58, 191, 181, 211, 106, 137, 74, 115, 114,
          42, 40, 154, 147, 214, 103, 105, 8, 126, 245, 10, 231, 126, 111, 147, 158>>>>,
      <<41, 37,
        <<113, 221, 175, 40, 139, 73, 142, 85, 42, 92, 2, 251, 146, 167, 180, 165,
          58, 47, 223, 48, 159, 146, 104, 254, 84, 154, 176, 8, 56, 141, 247, 32>>>>,
      <<41, 38,
        <<130, 70, 48, 87, 11, 169, 87, 17, 94, 5, 208, 245, 106, 207, 90, 7,
          158, 28, 179, 149, 190, 40, 140, 110, 219, 91, 140, 167, 98, 56, 226, 150>>>>,
      <<41, 40,
        <<158, 116, 85, 60, 52, 77, 160, 114, 127, 131, 22, 109, 185, 194, 218, 57,
          42, 169, 64, 100, 60, 210, 41, 118, 18, 164, 224, 65, 11, 90, 210, 107>>>>,
      <<41, 41,
        <<191, 93, 208, 111, 160, 160, 30, 248, 254, 196, 62, 139, 144, 171, 186, 199,
          146, 76, 168, 254, 78, 206, 84, 181, 85, 82, 168, 145, 2, 2, 241, 113>>>>,
      <<1, 42,
        <<186, 96, 48, 24, 99, 104, 224, 240, 80, 48, 32, 247, 6, 3, 245, 125,
          235, 104, 139, 65, 87, 71, 63, 70, 28, 49, 46, 102, 67, 157, 212, 88>>>>,
      <<2, 42,
        <<148, 121, 203, 232, 233, 87, 6, 65, 105, 53, 144, 144, 96, 127, 80, 193,
          172, 255, 67, 63, 194, 229, 217, 253, 138, 204, 208, 45, 202, 96, 123, 144>>>>,
      <<3, 42,
        <<246, 111, 184, 88, 247, 208, 171, 225, 193, 195, 44, 250, 51, 18, 68, 8,
          13, 233, 39, 89, 217, 166, 1, 244, 138, 220, 36, 26, 201, 218, 251, 197>>>>,
      <<4, 42,
        <<173, 181, 25, 119, 216, 171, 165, 196, 45, 100, 186, 61, 146, 130, 121, 152,
          44, 125, 159, 115, 94, 214, 2, 238, 158, 134, 250, 114, 244, 69, 90, 134>>>>,
      <<33, 42,
        <<161, 54, 177, 125, 174, 132, 1, 47, 85, 194, 252, 53, 221, 86, 153, 255,
          121, 154, 151, 106, 113, 21, 9, 27, 232, 201, 251, 71, 88, 154, 53, 36>>>>,
      <<34, 42,
        <<255, 141, 182, 249, 23, 164, 160, 241, 58, 128, 209, 130, 255, 101, 89, 118,
          20, 78, 89, 121, 116, 250, 180, 68, 165, 160, 50, 235, 87, 43, 67, 17>>>>,
      <<35, 42,
        <<150, 28, 212, 142, 122, 232, 162, 47, 246, 10, 173, 53, 37, 112, 201, 235,
          228, 110, 214, 137, 173, 252, 5, 178, 216, 125, 106, 233, 93, 168, 63, 79>>>>,
      <<36, 42,
        <<80, 62, 9, 239, 61, 246, 139, 235, 135, 241, 155, 132, 128, 130, 21, 21,
          239, 250, 102, 142, 80, 209, 122, 62, 104, 119, 139, 16, 127, 192, 247, 254>>>>,
      <<37, 42,
        <<1, 80, 217, 96, 118, 250, 123, 190, 44, 231, 129, 3, 199, 53, 8, 131,
          214, 75, 75, 255, 191, 130, 190, 83, 179, 251, 123, 13, 175, 1, 191, 96>>>>,
      <<38, 42,
        <<116, 219, 146, 246, 5, 245, 62, 75, 14, 191, 165, 245, 71, 62, 233, 118,
          227, 168, 79, 5, 232, 171, 150, 199, 223, 235, 80, 3, 147, 197, 100, 200>>>>,
      <<39, 42,
        <<68, 166, 91, 58, 5, 137, 112, 73, 81, 74, 12, 75, 251, 74, 160, 38,
          35, 231, 55, 117, 217, 75, 119, 173, 44, 71, 89, 236, 3, 237, 49, 160>>>>,
      <<40, 42,
        <<154, 166, 218, 195, 203, 208, 223, 120, 71, 27, 214, 191, 10, 56, 115, 8,
          192, 65, 252, 60, 76, 165, 32, 92, 73, 138, 14, 116, 10, 75, 168, 192>>>>,
      <<41, 42,
        <<197, 110, 253, 186, 159, 102, 203, 248, 40, 20, 240, 148, 160, 109, 35, 30,
          66, 207, 224, 158, 240, 155, 191, 124, 1, 203, 91, 215, 97, 74, 219, 121>>>>,
      <<42, 1,
        <<219, 196, 227, 235, 185, 20, 149, 183, 42, 234, 84, 158, 165, 19, 75, 28,
          17, 102, 247, 109, 165, 127, 217, 146, 226, 90, 28, 152, 179, 122, 35, 232>>>>,
      <<42, 2,
        <<66, 61, 64, 181, 226, 164, 24, 134, 82, 111, 50, 92, 34, 119, 145, 11,
          97, 148, 37, 124, 39, 8, 84, 173, 3, 156, 149, 213, 56, 242, 98, 245>>>>,
      <<42, 3,
        <<223, 200, 101, 105, 65, 22, 67, 93, 143, 112, 110, 197, 181, 218, 85, 74,
          215, 121, 36, 201, 106, 114, 131, 194, 121, 171, 22, 132, 185, 34, 5, 16>>>>,
      <<42, 4,
        <<69, 138, 87, 24, 62, 245, 89, 10, 30, 63, 158, 103, 198, 91, 220, 114,
          200, 161, 246, 55, 10, 234, 69, 192, 79, 215, 236, 135, 110, 171, 160, 194>>>>,
      <<42, 5,
        <<15, 100, 208, 179, 234, 247, 111, 6, 231, 146, 150, 122, 85, 190, 87, 60,
          178, 1, 177, 39, 116, 115, 3, 233, 217, 1, 218, 182, 80, 191, 160, 154>>>>,
      <<42, 6,
        <<184, 159, 130, 57, 23, 45, 252, 226, 33, 28, 26, 246, 241, 240, 63, 143,
          166, 204, 11, 78, 17, 113, 247, 32, 190, 201, 213, 29, 63, 87, 75, 155>>>>,
      <<42, 7,
        <<72, 191, 208, 21, 230, 67, 153, 111, 81, 89, 208, 212, 214, 94, 175, 198,
          94, 165, 19, 51, 1, 104, 24, 234, 25, 9, 33, 1, 87, 225, 111, 75>>>>,
      <<42, 8,
        <<176, 131, 141, 254, 238, 237, 32, 61, 105, 228, 145, 243, 148, 88, 240, 59,
          84, 60, 185, 103, 127, 94, 153, 209, 123, 241, 145, 94, 173, 115, 88, 109>>>>,
      <<42, 9,
        <<222, 182, 196, 77, 98, 43, 213, 96, 132, 69, 255, 245, 109, 28, 69, 206,
          217, 205, 170, 217, 179, 2, 86, 168, 47, 124, 143, 9, 241, 212, 207, 87>>>>,
      <<42, 33,
        <<77, 98, 16, 8, 211, 45, 119, 155, 250, 142, 191, 185, 243, 73, 232, 89,
          108, 168, 24, 12, 107, 21, 111, 36, 40, 185, 113, 239, 11, 251, 106, 19>>>>,
      <<42, 34,
        <<189, 133, 198, 171, 227, 89, 55, 20, 110, 75, 165, 73, 39, 6, 139, 148,
          59, 138, 99, 243, 233, 119, 176, 6, 142, 202, 116, 232, 194, 12, 77, 188>>>>,
      <<42, 35,
        <<68, 53, 135, 25, 160, 41, 249, 195, 230, 76, 128, 13, 96, 55, 233, 78,
          213, 68, 212, 0, 83, 72, 35, 193, 183, 183, 74, 91, 24, 208, 171, 137>>>>,
      <<42, 36,
        <<5, 36, 160, 15, 29, 243, 123, 219, 105, 204, 0, 72, 128, 200, 213, 193,
          221, 57, 169, 26, 239, 122, 144, 134, 14, 40, 25, 43, 253, 194, 124, 246>>>>,
      <<42, 37,
        <<239, 249, 218, 98, 23, 2, 104, 48, 27, 243, 64, 231, 132, 6, 59, 131,
          35, 38, 153, 12, 44, 12, 210, 126, 152, 210, 75, 201, 33, 27, 174, 158>>>>,
      <<42, 38,
        <<81, 40, 27, 148, 90, 6, 243, 147, 110, 247, 201, 6, 99, 68, 58, 4,
          48, 19, 226, 125, 67, 74, 7, 252, 208, 143, 224, 88, 219, 199, 24, 112>>>>,
      <<42, 39,
        <<51, 108, 94, 231, 149, 249, 211, 115, 60, 200, 114, 255, 90, 153, 29, 196,
          65, 108, 84, 38, 125, 23, 27, 59, 237, 16, 164, 25, 140, 62, 13, 117>>>>,
      <<42, 40,
        <<204, 219, 5, 238, 44, 159, 62, 166, 14, 166, 30, 241, 191, 65, 232, 228,
          64, 248, 190, 194, 191, 38, 254, 198, 104, 201, 202, 178, 31, 88, 129, 246>>>>,
      <<42, 41,
        <<21, 45, 3, 152, 232, 39, 38, 205, 219, 224, 158, 74, 248, 187, 117, 196,
          96, 58, 83, 190, 193, 77, 76, 126, 192, 188, 127, 154, 25, 246, 11, 38>>>>,
      <<42, 42,
        <<199, 56, 107, 152, 4, 86, 168, 74, 28, 221, 41, 109, 140, 28, 209, 239,
          170, 172, 178, 245, 156, 118, 74, 38, 231, 108, 84, 81, 95, 242, 103, 178>>>>,
      <<1, 43,
        <<37, 236, 171, 240, 223, 67, 213, 194, 11, 251, 100, 151, 142, 181, 126, 79,
          147, 108, 254, 45, 235, 124, 102, 137, 8, 141, 189, 235, 16, 87, 115, 146>>>>,
      <<2, 43,
        <<41, 76, 44, 164, 219, 26, 115, 162, 57, 129, 196, 106, 99, 103, 165, 137,
          161, 70, 63, 224, 30, 203, 193, 44, 220, 72, 229, 72, 118, 89, 243, 5>>>>,
      <<3, 43,
        <<104, 202, 128, 173, 156, 188, 40, 1, 32, 121, 79, 135, 246, 87, 228, 57,
          154, 234, 206, 47, 250, 140, 170, 184, 148, 241, 54, 63, 67, 237, 251, 46>>>>,
      <<4, 43,
        <<232, 150, 171, 223, 59, 98, 131, 191, 144, 157, 73, 88, 181, 247, 57, 12,
          103, 205, 184, 75, 111, 34, 243, 77, 246, 156, 217, 53, 34, 206, 39, 32>>>>,
      <<33, 43,
        <<150, 174, 57, 218, 130, 40, 244, 147, 155, 112, 105, 247, 134, 67, 150, 19,
          241, 129, 207, 20, 195, 134, 248, 147, 54, 64, 48, 65, 92, 19, 17, 69>>>>,
      <<34, 43,
        <<17, 34, 24, 46, 44, 52, 17, 99, 83, 246, 145, 15, 3, 247, 208, 212,
          121, 110, 145, 125, 249, 34, 213, 196, 252, 108, 39, 78, 118, 103, 216, 88>>>>,
      <<35, 43,
        <<125, 41, 86, 145, 45, 146, 247, 173, 16, 144, 204, 99, 212, 123, 187, 132,
          218, 216, 214, 3, 75, 58, 64, 109, 231, 129, 119, 126, 12, 72, 60, 236>>>>,
      <<36, 43,
        <<65, 178, 24, 19, 96, 162, 45, 194, 183, 151, 65, 140, 238, 203, 187, 85,
          210, 71, 97, 240, 86, 95, 200, 46, 56, 236, 173, 208, 238, 202, 4, 116>>>>,
      <<37, 43,
        <<201, 229, 223, 231, 115, 238, 235, 181, 3, 57, 199, 85, 75, 226, 19, 221,
          5, 255, 97, 93, 243, 63, 171, 78, 1, 241, 87, 107, 243, 48, 164, 16>>>>,
      <<38, 43,
        <<236, 202, 190, 63, 240, 242, 154, 248, 36, 97, 251, 59, 42, 191, 61, 239,
          47, 107, 101, 128, 155, 63, 149, 166, 112, 117, 146, 165, 124, 250, 243, 238>>>>,
      <<39, 43,
        <<74, 34, 199, 29, 225, 132, 9, 91, 175, 148, 132, 14, 28, 56, 42, 152,
          131, 191, 40, 224, 247, 159, 138, 48, 194, 109, 20, 43, 87, 127, 44, 124>>>>,
      <<40, 43,
        <<216, 171, 218, 27, 182, 229, 199, 38, 202, 36, 15, 213, 159, 11, 5, 116,
          88, 135, 147, 59, 236, 166, 37, 49, 140, 212, 78, 30, 44, 232, 41, 146>>>>,
      <<41, 43,
        <<249, 234, 68, 180, 214, 121, 98, 98, 26, 10, 83, 27, 18, 9, 81, 157,
          57, 170, 210, 176, 46, 74, 56, 138, 98, 253, 185, 68, 183, 174, 189, 106>>>>,
      <<42, 43,
        <<117, 35, 189, 136, 195, 19, 42, 76, 201, 80, 196, 182, 151, 104, 221, 248,
          3, 177, 179, 98, 212, 178, 70, 107, 3, 147, 249, 63, 82, 255, 174, 188>>>>,
      <<43, 2,
        <<228, 185, 109, 14, 209, 29, 3, 164, 104, 224, 161, 89, 3, 102, 234, 247,
          229, 192, 144, 45, 238, 149, 45, 129, 54, 78, 22, 28, 144, 118, 138, 124>>>>,
      <<43, 3,
        <<218, 24, 202, 49, 162, 249, 244, 115, 191, 15, 179, 66, 240, 87, 9, 53,
          190, 84, 179, 142, 167, 51, 141, 183, 87, 156, 210, 22, 111, 25, 3, 155>>>>,
      <<43, 36,
        <<230, 89, 95, 125, 158, 204, 111, 41, 216, 121, 25, 128, 252, 179, 237, 202,
          194, 17, 110, 46, 201, 82, 191, 183, 67, 112, 112, 38, 30, 104, 118, 161>>>>,
      <<43, 37,
        <<105, 211, 238, 8, 120, 108, 248, 103, 51, 172, 47, 159, 54, 99, 77, 10,
          123, 7, 186, 195, 123, 246, 244, 20, 33, 26, 201, 21, 246, 222, 244, 41>>>>,
      <<43, 39,
        <<74, 44, 240, 112, 64, 204, 216, 151, 84, 48, 1, 36, 130, 92, 157, 119,
          34, 168, 122, 191, 203, 27, 96, 132, 60, 167, 199, 44, 86, 212, 103, 115>>>>,
      <<43, 40,
        <<227, 255, 143, 205, 77, 119, 203, 233, 205, 255, 86, 218, 33, 3, 223, 29,
          39, 102, 161, 104, 13, 213, 254, 32, 189, 211, 19, 212, 22, 129, 34, 166>>>>,
      <<43, 43,
        <<34, 85, 177, 57, 48, 0, 93, 169, 53, 0, 99, 112, 148, 16, 227, 154,
          11, 177, 23, 38, 155, 160, 239, 24, 11, 103, 11, 4, 153, 221, 165, 227>>>>,
      <<1, 44,
        <<86, 207, 78, 20, 45, 87, 185, 203, 184, 238, 224, 165, 230, 108, 50, 8,
          199, 236, 41, 158, 252, 21, 58, 98, 93, 15, 44, 15, 249, 119, 108, 228>>>>,
      <<2, 44,
        <<99, 104, 244, 38, 6, 69, 68, 253, 231, 244, 164, 158, 72, 146, 44, 67,
          1, 245, 49, 191, 110, 16, 52, 5, 192, 74, 180, 191, 227, 131, 84, 185>>>>,
      <<3, 44,
        <<166, 220, 195, 52, 93, 138, 83, 76, 249, 230, 42, 245, 153, 24, 62, 170,
          168, 166, 186, 124, 66, 186, 162, 55, 207, 47, 226, 103, 254, 249, 136, 220>>>>,
      <<4, 44,
        <<76, 36, 56, 44, 106, 50, 130, 121, 130, 175, 81, 139, 231, 21, 10, 78,
          170, 182, 68, 124, 239, 122, 118, 86, 226, 254, 244, 131, 200, 213, 174, 204>>>>,
      <<33, 44,
        <<231, 27, 246, 157, 254, 198, 78, 129, 50, 104, 35, 246, 71, 126, 5, 10,
          147, 162, 107, 167, 234, 184, 73, 100, 67, 194, 215, 192, 216, 212, 43, 211>>>>,
      <<34, 44,
        <<162, 185, 81, 41, 23, 140, 249, 11, 227, 238, 143, 250, 184, 129, 176, 192,
          194, 106, 140, 169, 95, 77, 61, 186, 109, 80, 163, 11, 239, 161, 49, 249>>>>,
      <<35, 44,
        <<148, 195, 30, 140, 241, 193, 132, 253, 14, 115, 21, 193, 94, 53, 238, 12,
          158, 115, 86, 108, 179, 215, 86, 161, 55, 160, 81, 64, 203, 216, 89, 247>>>>,
      <<36, 44,
        <<147, 135, 180, 113, 83, 11, 253, 224, 50, 85, 186, 74, 108, 86, 27, 207,
          69, 78, 226, 229, 212, 171, 206, 40, 30, 74, 194, 112, 255, 69, 132, 116>>>>,
      <<39, 44,
        <<146, 97, 83, 129, 24, 123, 179, 215, 167, 162, 218, 116, 61, 182, 249, 41,
          199, 78, 202, 184, 189, 72, 242, 83, 52, 95, 195, 80, 86, 57, 57, 37>>>>,
      <<40, 44,
        <<61, 201, 108, 225, 123, 61, 222, 2, 120, 107, 66, 98, 154, 189, 35, 174,
          42, 51, 70, 72, 240, 71, 248, 209, 144, 26, 103, 12, 70, 87, 211, 39>>>>,
      <<41, 44,
        <<138, 57, 91, 216, 30, 13, 6, 84, 182, 56, 97, 240, 144, 228, 163, 80,
          43, 131, 250, 138, 100, 155, 137, 223, 141, 71, 177, 2, 165, 24, 133, 8>>>>,
      <<44, 1,
        <<83, 229, 190, 177, 68, 102, 66, 37, 12, 136, 83, 123, 148, 64, 191, 120,
          233, 99, 24, 173, 121, 251, 244, 106, 246, 90, 172, 74, 75, 72, 40, 116>>>>,
      <<44, 2,
        <<88, 119, 30, 185, 240, 202, 24, 20, 121, 197, 41, 129, 16, 237, 157, 221,
          121, 60, 109, 150, 106, 121, 62, 16, 50, 32, 56, 157, 154, 217, 231, 247>>>>,
      <<44, 3,
        <<124, 173, 249, 115, 224, 75, 54, 216, 55, 187, 210, 159, 42, 232, 191, 79,
          223, 122, 35, 169, 105, 195, 27, 43, 167, 51, 201, 125, 23, 187, 44, 15>>>>,
      <<44, 4,
        <<161, 170, 38, 89, 47, 185, 178, 219, 194, 43, 91, 214, 149, 247, 87, 151,
          165, 101, 132, 242, 122, 0, 95, 124, 154, 223, 6, 250, 37, 167, 72, 101>>>>,
      <<44, 33,
        <<125, 48, 53, 8, 148, 213, 237, 121, 154, 6, 35, 97, 216, 37, 35, 141,
          31, 86, 197, 154, 181, 19, 48, 116, 34, 175, 237, 176, 80, 91, 91, 221>>>>,
      <<44, 34,
        <<238, 159, 195, 238, 125, 214, 244, 54, 110, 41, 251, 245, 3, 65, 250, 187,
          56, 173, 71, 117, 140, 90, 139, 206, 94, 85, 66, 25, 234, 108, 124, 140>>>>,
      <<44, 36,
        <<62, 112, 143, 40, 204, 213, 168, 62, 142, 91, 196, 75, 126, 220, 204, 4,
          13, 36, 74, 188, 30, 228, 28, 235, 146, 111, 54, 89, 16, 233, 210, 78>>>>,
      <<44, 39,
        <<41, 106, 47, 11, 195, 99, 209, 170, 56, 155, 249, 94, 161, 93, 124, 213,
          1, 126, 251, 159, 116, 247, 60, 52, 105, 113, 172, 108, 115, 103, 245, 59>>>>,
      <<44, 40,
        <<181, 191, 49, 214, 8, 205, 74, 133, 104, 109, 67, 181, 168, 93, 241, 233,
          238, 197, 90, 85, 13, 140, 222, 17, 100, 207, 140, 57, 198, 86, 168, 203>>>>,
      <<44, 41,
        <<125, 105, 134, 71, 122, 204, 87, 53, 22, 136, 229, 99, 127, 35, 255, 22,
          16, 47, 125, 68, 7, 244, 39, 172, 60, 30, 180, 136, 56, 113, 171, 169>>>>,
      <<44, 42,
        <<170, 216, 106, 114, 156, 191, 9, 46, 172, 142, 94, 27, 4, 111, 120, 97,
          3, 175, 27, 141, 243, 245, 123, 148, 97, 250, 178, 233, 48, 92, 2, 121>>>>,
      <<44, 43,
        <<78, 171, 179, 155, 247, 177, 158, 9, 92, 112, 113, 43, 75, 14, 205, 96,
          11, 196, 212, 77, 232, 155, 222, 148, 85, 40, 4, 177, 2, 172, 187, 28>>>>,
      <<1, 45,
        <<226, 222, 21, 4, 151, 82, 116, 81, 184, 157, 5, 72, 167, 60, 101, 109,
          205, 199, 22, 32, 17, 186, 202, 155, 153, 203, 121, 149, 14, 160, 165, 140>>>>,
      <<2, 45,
        <<17, 15, 239, 41, 91, 184, 230, 1, 61, 132, 225, 185, 58, 114, 192, 91,
          48, 21, 34, 57, 122, 27, 205, 145, 87, 242, 137, 246, 120, 6, 19, 120>>>>,
      <<3, 45,
        <<107, 188, 141, 155, 29, 212, 254, 111, 63, 118, 24, 246, 191, 223, 112, 18,
          212, 199, 64, 216, 172, 120, 141, 171, 31, 130, 252, 43, 23, 64, 192, 177>>>>,
      <<4, 45,
        <<37, 216, 124, 102, 73, 26, 3, 248, 74, 77, 62, 14, 111, 55, 89, 14,
          112, 138, 241, 161, 6, 30, 114, 39, 140, 249, 37, 171, 58, 81, 9, 111>>>>,
      <<33, 45,
        <<93, 46, 221, 165, 217, 141, 186, 36, 3, 1, 35, 71, 120, 10, 51, 143,
          219, 54, 240, 231, 151, 81, 78, 61, 236, 204, 0, 70, 118, 168, 46, 67>>>>,
      <<34, 45,
        <<15, 176, 189, 163, 197, 17, 149, 226, 171, 98, 157, 107, 24, 85, 136, 92,
          251, 130, 62, 199, 154, 95, 164, 211, 25, 148, 153, 78, 24, 250, 100, 3>>>>,
      <<35, 45,
        <<202, 254, 17, 43, 55, 239, 152, 0, 214, 158, 45, 39, 30, 159, 10, 246,
          87, 237, 156, 42, 188, 7, 211, 68, 26, 199, 77, 45, 82, 210, 101, 64>>>>,
      <<36, 45,
        <<16, 144, 206, 52, 241, 81, 98, 174, 183, 243, 117, 165, 153, 91, 76, 107,
          230, 34, 42, 166, 229, 17, 114, 155, 99, 100, 108, 47, 245, 162, 46, 21>>>>,
      <<39, 45,
        <<124, 51, 54, 28, 66, 108, 175, 4, 81, 22, 2, 127, 96, 60, 12, 122,
          245, 143, 70, 164, 132, 106, 118, 59, 163, 219, 223, 51, 44, 147, 72, 148>>>>,
      <<40, 45,
        <<99, 98, 24, 77, 72, 32, 24, 99, 91, 42, 240, 180, 156, 216, 211, 162,
          29, 238, 71, 154, 236, 189, 57, 29, 238, 211, 129, 94, 189, 97, 103, 107>>>>,
      <<1, 46,
        <<161, 51, 131, 111, 117, 166, 228, 237, 57, 155, 29, 60, 116, 214, 82, 220,
          92, 146, 249, 70, 150, 90, 58, 108, 37, 54, 11, 245, 148, 241, 179, 57>>>>,
      <<2, 46,
        <<85, 73, 60, 108, 85, 2, 80, 219, 192, 184, 164, 40, 228, 202, 75, 225,
          1, 118, 27, 70, 191, 35, 72, 165, 50, 5, 146, 240, 138, 23, 53, 27>>>>,
      <<3, 46,
        <<196, 124, 161, 96, 65, 129, 250, 138, 118, 16, 61, 78, 141, 239, 140, 7,
          189, 219, 4, 186, 41, 157, 202, 76, 177, 207, 200, 31, 148, 7, 116, 114>>>>,
      <<4, 46,
        <<253, 131, 4, 212, 231, 51, 83, 39, 140, 3, 255, 106, 214, 99, 249, 183,
          34, 163, 67, 173, 251, 133, 176, 180, 9, 63, 231, 159, 165, 10, 169, 3>>>>,
      <<5, 46,
        <<186, 85, 174, 216, 116, 196, 58, 130, 23, 117, 201, 218, 211, 103, 220, 177,
          217, 77, 41, 99, 44, 200, 54, 64, 94, 184, 206, 178, 224, 70, 119, 117>>>>,
      <<33, 46,
        <<41, 231, 235, 70, 177, 118, 147, 53, 160, 22, 109, 0, 206, 165, 197, 3,
          20, 116, 73, 38, 209, 82, 30, 73, 61, 80, 101, 155, 86, 182, 1, 113>>>>,
      <<34, 46,
        <<214, 39, 71, 49, 199, 101, 199, 218, 10, 128, 121, 123, 171, 127, 199, 231,
          248, 12, 128, 67, 178, 65, 124, 170, 112, 152, 53, 148, 156, 41, 241, 180>>>>,
      <<35, 46,
        <<3, 238, 83, 95, 200, 144, 189, 218, 143, 82, 58, 250, 115, 24, 109, 200,
          190, 115, 69, 111, 113, 165, 27, 98, 8, 15, 49, 245, 42, 22, 152, 171>>>>,
      <<36, 46,
        <<219, 68, 9, 143, 110, 203, 210, 23, 114, 84, 109, 242, 110, 154, 162, 118,
          113, 51, 130, 118, 62, 172, 254, 169, 135, 21, 205, 137, 97, 56, 43, 35>>>>,
      <<37, 46,
        <<48, 252, 194, 185, 214, 19, 113, 60, 169, 110, 212, 222, 54, 82, 145, 220,
          159, 103, 54, 200, 108, 242, 140, 118, 166, 155, 95, 168, 250, 197, 197, 118>>>>,
      <<38, 46,
        <<90, 88, 128, 66, 16, 143, 212, 16, 158, 128, 43, 219, 38, 52, 73, 168,
          156, 154, 38, 249, 168, 13, 14, 163, 168, 221, 61, 58, 163, 161, 33, 152>>>>,
      <<39, 46,
        <<8, 221, 141, 148, 15, 219, 58, 57, 156, 141, 30, 28, 101, 83, 134, 205,
          69, 39, 215, 23, 182, 98, 152, 86, 246, 144, 95, 30, 114, 200, 246, 6>>>>,
      <<40, 46,
        <<109, 142, 47, 227, 189, 10, 71, 54, 246, 91, 20, 191, 5, 203, 65, 105,
          172, 102, 27, 140, 65, 241, 251, 253, 77, 248, 33, 216, 0, 69, 205, 67>>>>,
      <<42, 46,
        <<189, 96, 172, 87, 249, 89, 83, 241, 232, 214, 77, 225, 36, 138, 86, 170,
          76, 0, 70, 158, 126, 194, 163, 195, 215, 236, 77, 29, 206, 178, 159, 39>>>>,
      <<44, 46,
        <<31, 253, 62, 190, 7, 151, 188, 202, 25, 154, 129, 17, 143, 186, 25, 194,
          171, 238, 54, 210, 192, 125, 49, 21, 46, 21, 48, 88, 171, 187, 168, 230>>>>,
      <<46, 2,
        <<179, 35, 224, 75, 219, 99, 163, 23, 236, 75, 104, 126, 209, 251, 87, 243,
          81, 65, 152, 220, 141, 57, 102, 80, 168, 196, 252, 192, 62, 64, 240, 102>>>>,
      <<46, 4,
        <<42, 65, 192, 98, 137, 252, 164, 44, 243, 173, 81, 34, 20, 232, 254, 92,
          82, 239, 7, 5, 97, 89, 108, 20, 135, 51, 222, 14, 243, 55, 66, 25>>>>,
      <<46, 36,
        <<112, 207, 5, 81, 29, 16, 133, 206, 250, 61, 248, 215, 164, 99, 176, 142,
          40, 58, 188, 118, 231, 196, 244, 29, 57, 188, 191, 67, 140, 136, 5, 250>>>>,
      <<46, 37,
        <<163, 243, 26, 124, 107, 19, 121, 180, 165, 206, 246, 245, 3, 42, 86, 193,
          150, 87, 161, 159, 219, 57, 198, 215, 190, 232, 161, 243, 52, 62, 119, 2>>>>,
      <<46, 41,
        <<3, 76, 39, 182, 179, 152, 179, 226, 248, 111, 1, 216, 136, 182, 87, 134,
          97, 252, 192, 189, 192, 219, 39, 8, 53, 11, 221, 146, 74, 24, 181, 66>>>>,
      <<46, 42,
        <<239, 165, 131, 148, 222, 153, 83, 175, 85, 135, 216, 182, 3, 155, 204, 176,
          178, 191, 254, 76, 36, 177, 59, 160, 114, 183, 41, 159, 80, 119, 30, 226>>>>,
      <<46, 43,
        <<253, 109, 74, 123, 10, 251, 173, 150, 169, 237, 136, 116, 90, 200, 117, 239,
          81, 220, 228, 225, 225, 233, 10, 214, 176, 252, 229, 113, 255, 198, 191, 153>>>>,
      <<46, 44,
        <<154, 115, 230, 101, 86, 237, 191, 14, 186, 67, 25, 156, 207, 124, 215, 180,
          7, 193, 83, 41, 120, 98, 157, 158, 223, 246, 195, 240, 162, 156, 209, 23>>>>,
      <<46, 45,
        <<214, 198, 223, 28, 118, 200, 50, 126, 102, 73, 163, 14, 250, 237, 15, 23,
          121, 130, 43, 255, 65, 208, 138, 88, 22, 123, 110, 243, 207, 16, 85, 125>>>>,
      <<46, 46,
        <<49, 73, 101, 97, 132, 183, 121, 25, 196, 199, 68, 47, 253, 210, 184, 16,
          90, 172, 164, 235, 240, 88, 238, 105, 60, 210, 172, 177, 50, 197, 175, 157>>>>,
      <<36, 47,
        <<154, 66, 55, 215, 72, 255, 19, 32, 140, 128, 205, 81, 131, 222, 67, 80,
          13, 65, 12, 36, 2, 26, 168, 183, 32, 183, 197, 63, 20, 227, 119, 206>>>>,
      <<39, 47,
        <<245, 160, 215, 180, 85, 151, 44, 146, 162, 63, 107, 9, 124, 59, 156, 0,
          188, 44, 248, 62, 9, 157, 114, 48, 101, 99, 105, 98, 166, 16, 44, 204>>>>,
      <<40, 47,
        <<181, 139, 70, 26, 244, 65, 21, 219, 185, 207, 83, 189, 253, 239, 110, 210,
          6, 46, 197, 128, 186, 98, 195, 247, 231, 26, 97, 241, 212, 165, 106, 211>>>>,
      <<47, 40,
        <<252, 189, 210, 8, 218, 88, 116, 127, 229, 41, 176, 93, 27, 200, 254, 241,
          66, 208, 240, 172, 208, 48, 132, 52, 101, 204, 236, 137, 226, 226, 138, 122>>>>,
      <<36, 48,
        <<8, 118, 53, 62, 197, 21, 239, 173, 13, 178, 50, 130, 116, 11, 249, 231,
          21, 78, 226, 147, 71, 98, 17, 58, 242, 61, 235, 186, 128, 10, 147, 61>>>>,
      <<39, 48,
        <<198, 167, 41, 189, 144, 41, 214, 145, 184, 224, 106, 120, 225, 7, 143, 32,
          163, 195, 124, 12, 157, 232, 188, 76, 173, 230, 105, 128, 57, 29, 48, 94>>>>,
      <<40, 48,
        <<73, 186, 156, 224, 50, 181, 192, 220, 70, 178, 198, 177, 37, 18, 241, 100,
          182, 76, 175, 125, 84, 24, 252, 122, 248, 118, 112, 178, 252, 89, 240, 123>>>>,
      <<48, 1,
        <<155, 70, 231, 17, 9, 139, 159, 159, 72, 253, 223, 26, 36, 219, 192, 5,
          244, 172, 102, 133, 113, 80, 103, 36, 48, 39, 122, 156, 50, 101, 254, 6>>>>,
      <<48, 2,
        <<118, 19, 23, 235, 158, 250, 245, 45, 4, 51, 185, 0, 85, 110, 42, 181,
          25, 83, 88, 202, 210, 223, 40, 209, 210, 153, 71, 222, 224, 64, 228, 223>>>>,
      <<48, 3,
        <<213, 119, 243, 1, 13, 162, 73, 84, 60, 164, 47, 140, 0, 70, 163, 219,
          167, 210, 155, 152, 121, 232, 70, 252, 199, 15, 223, 77, 34, 108, 193, 251>>>>,
      <<48, 4,
        <<179, 57, 72, 192, 114, 173, 221, 156, 56, 144, 83, 8, 140, 144, 41, 192,
          130, 170, 118, 18, 204, 70, 61, 225, 79, 57, 38, 5, 151, 180, 20, 41>>>>,
      <<48, 5,
        <<235, 244, 182, 161, 68, 40, 145, 109, 0, 59, 244, 36, 71, 194, 166, 149,
          60, 4, 47, 249, 3, 237, 82, 175, 233, 145, 55, 87, 126, 206, 237, 244>>>>,
      <<48, 6,
        <<193, 250, 13, 31, 121, 240, 154, 49, 166, 253, 152, 82, 69, 151, 225, 6,
          216, 209, 109, 248, 42, 39, 81, 93, 104, 110, 95, 208, 19, 179, 93, 239>>>>,
      <<48, 7,
        <<174, 223, 181, 97, 235, 190, 69, 97, 191, 44, 152, 108, 35, 115, 76, 254,
          194, 58, 127, 6, 42, 49, 181, 102, 52, 178, 139, 131, 202, 82, 253, 128>>>>,
      <<48, 8,
        <<71, 124, 45, 60, 205, 138, 83, 39, 118, 157, 57, 27, 75, 175, 139, 90,
          87, 18, 84, 219, 168, 224, 164, 34, 2, 156, 43, 156, 5, 44, 251, 228>>>>,
      <<48, 9,
        <<117, 223, 60, 212, 132, 6, 82, 181, 218, 123, 13, 110, 115, 176, 171, 71,
          224, 62, 77, 53, 79, 248, 21, 2, 51, 203, 137, 2, 235, 89, 250, 194>>>>,
      <<48, 33,
        <<23, 59, 132, 46, 77, 79, 223, 76, 57, 102, 71, 167, 15, 135, 190, 213,
          108, 66, 28, 154, 73, 19, 243, 252, 210, 196, 169, 223, 200, 16, 191, 44>>>>,
      <<48, 34,
        <<70, 195, 139, 51, 68, 55, 122, 56, 108, 184, 178, 247, 71, 161, 62, 175,
          140, 161, 21, 114, 58, 222, 127, 205, 22, 151, 27, 211, 57, 77, 176, 12>>>>,
      <<48, 36,
        <<84, 193, 162, 157, 33, 1, 113, 114, 241, 83, 250, 63, 69, 23, 141, 9,
          199, 183, 57, 79, 61, 100, 128, 205, 50, 122, 44, 19, 168, 196, 136, 8>>>>,
      <<48, 39,
        <<172, 33, 150, 159, 137, 248, 8, 7, 189, 105, 99, 35, 130, 97, 30, 247,
          26, 132, 131, 234, 204, 220, 233, 229, 91, 211, 61, 34, 3, 187, 123, 16>>>>,
      <<48, 40,
        <<177, 171, 129, 211, 43, 251, 154, 44, 62, 14, 57, 19, 105, 187, 75, 136,
          178, 133, 132, 185, 214, 255, 161, 175, 102, 168, 30, 105, 242, 2, 87, 232>>>>,
      <<48, 41,
        <<72, 251, 69, 229, 145, 14, 172, 181, 204, 126, 255, 146, 242, 222, 189, 8,
          148, 62, 136, 175, 25, 39, 122, 32, 21, 241, 145, 35, 213, 218, 65, 61>>>>,
      <<48, 42,
        <<65, 143, 89, 127, 188, 111, 222, 142, 220, 213, 113, 186, 24, 68, 148, 192,
          233, 121, 152, 43, 117, 51, 106, 81, 93, 187, 69, 190, 223, 180, 190, 58>>>>,
      <<48, 43,
        <<244, 23, 70, 36, 55, 1, 147, 241, 177, 9, 116, 184, 202, 135, 207, 175,
          77, 236, 149, 228, 130, 148, 237, 131, 51, 114, 126, 77, 6, 237, 32, 35>>>>,
      <<48, 46,
        <<149, 143, 253, 69, 133, 113, 20, 47, 70, 150, 152, 158, 199, 25, 126, 225,
          119, 143, 239, 58, 56, 13, 152, 126, 227, 6, 193, 117, 134, 136, 213, 125>>>>,
      <<35, 49,
        <<163, 140, 106, 134, 248, 80, 144, 161, 1, 195, 9, 106, 9, 192, 75, 1,
          8, 240, 101, 48, 10, 14, 236, 211, 194, 25, 68, 17, 202, 138, 238, 229>>>>,
      <<36, 49,
        <<100, 151, 29, 204, 144, 73, 145, 36, 6, 67, 204, 175, 233, 207, 47, 46,
          129, 207, 161, 121, 104, 54, 45, 7, 120, 192, 223, 73, 187, 24, 160, 24>>>>,
      <<39, 49,
        <<48, 168, 232, 80, 95, 226, 239, 79, 219, 4, 75, 82, 231, 76, 2, 17,
          51, 235, 232, 42, 125, 48, 54, 132, 31, 190, 81, 171, 109, 53, 148, 126>>>>,
      <<40, 49,
        <<101, 85, 223, 179, 125, 151, 241, 217, 247, 248, 202, 243, 190, 88, 229, 244,
          216, 94, 196, 133, 18, 207, 151, 233, 38, 233, 85, 242, 194, 211, 207, 180>>>>,
      <<49, 35,
        <<148, 52, 46, 102, 159, 218, 77, 59, 40, 13, 87, 169, 242, 255, 245, 117,
          114, 29, 6, 156, 172, 192, 80, 103, 197, 203, 207, 127, 20, 156, 82, 10>>>>,
      <<49, 36,
        <<65, 173, 175, 180, 45, 178, 131, 94, 178, 124, 25, 14, 205, 19, 105, 199,
          134, 118, 20, 66, 254, 165, 159, 141, 162, 183, 62, 98, 23, 164, 57, 58>>>>,
      <<49, 37,
        <<66, 249, 184, 60, 180, 179, 117, 145, 60, 234, 176, 22, 92, 216, 245, 94,
          132, 182, 250, 127, 237, 103, 46, 25, 221, 97, 245, 108, 100, 10, 151, 124>>>>,
      <<1, 50,
        <<140, 50, 222, 108, 23, 41, 104, 239, 82, 23, 32, 14, 63, 36, 120, 183,
          223, 108, 105, 56, 6, 10, 67, 157, 233, 233, 249, 215, 220, 167, 238, 63>>>>,
      <<2, 50,
        <<84, 105, 204, 25, 196, 63, 154, 99, 168, 190, 90, 38, 229, 72, 36, 25,
          175, 114, 47, 77, 65, 229, 205, 87, 71, 33, 95, 123, 146, 178, 68, 74>>>>,
      <<3, 50,
        <<37, 55, 234, 228, 230, 167, 255, 146, 46, 107, 236, 143, 63, 250, 46, 102,
          78, 226, 133, 254, 140, 177, 5, 221, 219, 216, 6, 34, 141, 31, 65, 159>>>>,
      <<4, 50,
        <<177, 207, 211, 190, 137, 198, 164, 194, 50, 90, 35, 16, 130, 240, 139, 48,
          225, 250, 205, 228, 74, 56, 99, 128, 57, 158, 176, 207, 29, 15, 44, 62>>>>,
      <<33, 50,
        <<162, 128, 226, 113, 152, 227, 198, 59, 30, 254, 90, 105, 187, 138, 192, 71,
          233, 34, 226, 238, 161, 240, 153, 119, 168, 21, 134, 198, 163, 144, 159, 126>>>>,
      <<34, 50,
        <<148, 171, 101, 129, 232, 130, 134, 229, 92, 59, 200, 220, 248, 24, 164, 63,
          68, 204, 91, 32, 220, 5, 254, 175, 236, 143, 41, 186, 130, 241, 196, 162>>>>,
      <<36, 50,
        <<124, 247, 67, 7, 94, 193, 10, 88, 185, 67, 23, 130, 71, 83, 196, 4,
          137, 246, 160, 218, 59, 192, 35, 79, 3, 34, 241, 4, 188, 201, 72, 45>>>>,
      <<39, 50,
        <<189, 86, 52, 42, 133, 15, 213, 169, 174, 96, 246, 46, 48, 177, 112, 154,
          48, 252, 42, 171, 200, 159, 30, 17, 126, 167, 171, 100, 19, 36, 225, 217>>>>,
      <<40, 50,
        <<178, 88, 227, 116, 200, 183, 91, 93, 246, 138, 68, 231, 56, 34, 84, 105,
          117, 126, 230, 51, 105, 206, 220, 167, 183, 200, 80, 88, 47, 81, 186, 111>>>>,
      <<46, 50,
        <<174, 231, 98, 4, 28, 74, 102, 98, 204, 165, 39, 25, 250, 246, 88, 78,
          198, 176, 78, 37, 236, 158, 37, 193, 54, 151, 51, 137, 185, 140, 90, 118>>>>,
      <<35, 51,
        <<213, 16, 125, 49, 188, 47, 193, 79, 60, 244, 141, 133, 64, 232, 72, 166,
          38, 227, 113, 20, 250, 193, 24, 57, 217, 141, 53, 10, 159, 150, 121, 212>>>>,
      <<44, 51,
        <<73, 222, 21, 195, 245, 78, 240, 128, 53, 251, 118, 42, 10, 81, 126, 33,
          180, 67, 48, 56, 198, 221, 75, 243, 241, 84, 157, 236, 113, 24, 33, 94>>>>,
      <<46, 51,
        <<66, 78, 219, 238, 216, 22, 7, 2, 157, 147, 65, 194, 211, 149, 75, 193,
          248, 207, 16, 34, 52, 29, 21, 8, 207, 193, 156, 157, 230, 111, 91, 2>>>>,
      <<47, 51,
        <<101, 210, 47, 227, 199, 92, 92, 169, 151, 151, 102, 74, 93, 60, 160, 70,
          126, 81, 209, 160, 179, 240, 48, 16, 234, 221, 118, 76, 171, 255, 49, 52>>>>,
      <<51, 46,
        <<49, 89, 204, 228, 103, 34, 192, 202, 200, 117, 202, 116, 41, 149, 98, 60,
          158, 117, 76, 227, 198, 178, 126, 239, 129, 95, 109, 217, 12, 33, 218, 222>>>>,
      <<36, 53,
        <<230, 65, 87, 42, 230, 113, 208, 242, 228, 21, 194, 172, 94, 195, 42, 216,
          198, 23, 132, 96, 157, 8, 25, 143, 241, 67, 16, 91, 213, 69, 9, 165>>>>,
      <<35, 54,
        <<14, 228, 112, 89, 213, 101, 115, 187, 65, 70, 40, 206, 247, 105, 167, 196,
          143, 189, 225, 169, 119, 184, 96, 72, 1, 84, 57, 84, 220, 136, 200, 91>>>>,
      <<36, 54,
        <<36, 204, 146, 161, 247, 199, 180, 122, 103, 170, 73, 178, 200, 80, 207, 89,
          28, 63, 43, 245, 91, 231, 158, 86, 101, 146, 72, 2, 78, 32, 177, 7>>>>,
      <<39, 54,
        <<67, 125, 180, 146, 119, 26, 24, 205, 61, 179, 157, 214, 232, 217, 76, 214,
          196, 226, 95, 103, 139, 176, 93, 151, 91, 223, 109, 135, 180, 42, 120, 230>>>>,
      <<40, 54,
        <<133, 37, 80, 223, 82, 223, 2, 154, 151, 174, 172, 53, 168, 240, 89, 155,
          168, 112, 217, 146, 247, 167, 56, 189, 28, 242, 63, 39, 93, 91, 91, 172>>>>,
      <<41, 54,
        <<154, 162, 75, 148, 164, 25, 201, 135, 32, 114, 124, 230, 91, 109, 74, 135,
          24, 33, 144, 31, 232, 52, 77, 242, 146, 194, 124, 102, 3, 87, 129, 48>>>>,
      <<55, 40,
        <<174, 204, 101, 159, 161, 18, 238, 18, 32, 146, 192, 111, 254, 188, 42, 235,
          183, 241, 18, 86, 94, 140, 99, 191, 57, 43, 33, 186, 10, 246, 196, 85>>>>,
      <<56, 1,
        <<11, 254, 120, 198, 79, 116, 113, 243, 252, 252, 63, 14, 255, 4, 71, 106,
          118, 201, 101, 135, 7, 86, 160, 194, 197, 102, 68, 131, 149, 125, 155, 113>>>>,
      <<56, 2,
        <<186, 187, 65, 219, 253, 215, 86, 174, 2, 116, 210, 216, 64, 164, 142, 38,
          84, 75, 229, 170, 37, 53, 198, 185, 115, 23, 68, 177, 66, 62, 85, 191>>>>,
      <<56, 3,
        <<59, 73, 92, 175, 144, 151, 224, 200, 55, 177, 209, 193, 253, 47, 61, 3,
          68, 107, 9, 236, 143, 231, 155, 58, 152, 107, 97, 45, 239, 212, 150, 186>>>>,
      <<56, 4,
        <<84, 99, 61, 52, 31, 66, 163, 14, 199, 155, 29, 92, 189, 100, 119, 186,
          113, 123, 157, 183, 192, 56, 17, 120, 192, 86, 188, 27, 80, 253, 114, 247>>>>,
      <<56, 5,
        <<32, 138, 211, 119, 120, 64, 170, 162, 185, 151, 162, 9, 121, 225, 7, 161,
          151, 53, 163, 54, 212, 2, 100, 88, 151, 125, 99, 52, 98, 162, 192, 30>>>>,
      <<56, 6,
        <<237, 239, 164, 114, 50, 162, 86, 106, 254, 210, 113, 64, 67, 248, 207, 202,
          155, 213, 101, 14, 40, 147, 146, 123, 125, 40, 17, 36, 76, 107, 118, 173>>>>,
      <<56, 7,
        <<113, 43, 30, 116, 12, 149, 95, 64, 109, 220, 81, 104, 50, 152, 7, 143,
          106, 233, 160, 167, 12, 210, 184, 155, 124, 49, 32, 81, 43, 206, 179, 27>>>>,
      <<56, 8,
        <<161, 23, 93, 184, 77, 161, 17, 95, 4, 66, 229, 7, 146, 197, 58, 107,
          66, 107, 146, 47, 26, 205, 5, 209, 26, 129, 164, 67, 48, 0, 250, 27>>>>,
      <<56, 9,
        <<60, 54, 243, 64, 93, 243, 175, 99, 179, 210, 146, 200, 139, 4, 30, 95,
          32, 163, 72, 232, 176, 73, 14, 156, 225, 6, 8, 34, 100, 253, 12, 178>>>>,
      <<56, 33,
        <<242, 189, 147, 254, 42, 0, 225, 152, 161, 109, 200, 254, 182, 210, 194, 228,
          217, 10, 166, 223, 228, 241, 107, 2, 83, 78, 212, 25, 180, 168, 34, 2>>>>,
      <<56, 34,
        <<58, 87, 163, 48, 124, 35, 143, 14, 155, 40, 249, 191, 47, 111, 72, 234,
          241, 180, 223, 191, 114, 78, 221, 224, 236, 51, 109, 77, 26, 50, 48, 239>>>>,
      <<56, 36,
        <<197, 51, 46, 76, 67, 133, 6, 80, 226, 187, 205, 255, 54, 164, 227, 241,
          219, 151, 229, 40, 148, 46, 104, 40, 68, 214, 20, 103, 190, 245, 115, 109>>>>,
      <<56, 46,
        <<24, 125, 228, 145, 204, 85, 77, 229, 38, 130, 18, 76, 75, 64, 84, 125,
          108, 91, 8, 157, 87, 241, 247, 94, 26, 13, 161, 171, 77, 149, 69, 13>>>>,
      <<36, 58,
        <<165, 8, 79, 245, 131, 101, 21, 1, 185, 190, 240, 127, 25, 28, 67, 47,
          252, 251, 253, 251, 144, 55, 93, 77, 162, 186, 161, 32, 104, 225, 52, 85>>>>,
      <<58, 35,
        <<49, 153, 100, 91, 208, 123, 218, 198, 92, 155, 175, 126, 37, 65, 178, 51,
          221, 22, 129, 148, 101, 107, 204, 130, 130, 138, 118, 120, 0, 10, 138, 222>>>>,
      <<58, 39,
        <<137, 54, 217, 120, 18, 44, 1, 179, 201, 33, 89, 189, 12, 111, 34, 142,
          72, 198, 38, 23, 174, 241, 115, 85, 16, 234, 98, 166, 93, 108, 176, 42>>>>,
      <<58, 41,
        <<217, 19, 16, 76, 241, 36, 171, 83, 240, 56, 185, 124, 231, 241, 62, 158,
          157, 96, 242, 142, 3, 115, 86, 173, 179, 233, 130, 119, 169, 57, 75, 136>>>>,
      <<58, 42,
        <<62, 174, 92, 112, 199, 135, 122, 110, 2, 14, 204, 121, 74, 6, 162, 63,
          117, 76, 112, 229, 197, 47, 41, 75, 218, 8, 90, 91, 157, 245, 206, 39>>>>,
      <<51, 60,
        <<249, 94, 61, 96, 157, 212, 106, 121, 16, 244, 2, 30, 80, 18, 158, 11,
          189, 232, 216, 111, 185, 36, 128, 51, 245, 178, 214, 192, 189, 239, 208, 180>>>>,
      <<54, 60,
        <<182, 198, 39, 200, 124, 247, 67, 25, 59, 76, 108, 91, 246, 245, 9, 144,
          254, 241, 93, 241, 252, 192, 54, 175, 90, 60, 127, 81, 131, 73, 180, 129>>>>,
      <<55, 60,
        <<89, 248, 118, 202, 73, 176, 8, 17, 179, 93, 16, 152, 33, 205, 175, 102,
          251, 133, 50, 200, 205, 212, 62, 181, 47, 34, 164, 112, 64, 96, 225, 172>>>>,
      <<35, 64,
        <<26, 147, 155, 80, 225, 82, 150, 184, 36, 61, 221, 92, 210, 71, 160, 190,
          43, 115, 83, 234, 21, 6, 168, 131, 117, 232, 118, 164, 197, 126, 147, 38>>>>,
      <<36, 64,
        <<61, 99, 247, 167, 193, 51, 143, 255, 42, 19, 145, 126, 216, 65, 81, 14,
          32, 46, 77, 60, 118, 120, 35, 35, 154, 164, 80, 220, 253, 191, 116, 32>>>>,
      <<38, 64,
        <<123, 225, 228, 40, 125, 35, 160, 157, 189, 0, 223, 100, 251, 110, 190, 210,
          22, 161, 142, 36, 12, 222, 241, 156, 139, 231, 224, 226, 133, 17, 147, 244>>>>,
      <<42, 64,
        <<162, 202, 122, 146, 146, 19, 15, 110, 253, 19, 215, 174, 216, 223, 150, 25,
          142, 61, 48, 163, 136, 196, 107, 250, 186, 249, 202, 65, 133, 250, 2, 151>>>>,
      <<44, 64,
        <<207, 51, 181, 156, 100, 10, 134, 110, 101, 175, 68, 194, 76, 146, 58, 71,
          225, 184, 220, 36, 57, 144, 224, 165, 169, 141, 227, 16, 108, 226, 134, 67>>>>,
      <<46, 64,
        <<59, 223, 217, 248, 151, 182, 144, 19, 16, 87, 6, 89, 180, 10, 201, 28,
          68, 137, 153, 81, 171, 121, 144, 241, 154, 0, 168, 63, 103, 195, 44, 91>>>>,
      <<47, 64,
        <<197, 32, 39, 39, 159, 200, 249, 237, 226, 61, 252, 248, 145, 246, 9, 179,
          191, 234, 129, 8, 59, 149, 229, 71, 58, 13, 186, 49, 224, 215, 56, 124>>>>,
      <<48, 64,
        <<173, 57, 146, 88, 150, 216, 198, 167, 220, 223, 134, 247, 252, 49, 2, 3,
          230, 128, 187, 62, 140, 68, 131, 188, 53, 53, 36, 93, 49, 2, 171, 67>>>>,
      <<56, 64,
        <<117, 225, 70, 108, 34, 236, 66, 1, 206, 230, 179, 136, 222, 255, 240, 39,
          237, 113, 65, 113, 236, 111, 105, 230, 189, 131, 221, 238, 185, 12, 185, 227>>>>,
      <<64, 2,
        <<237, 245, 222, 100, 45, 183, 35, 27, 19, 232, 102, 246, 128, 179, 192, 12,
          102, 33, 191, 231, 49, 147, 46, 167, 228, 222, 29, 49, 232, 209, 131, 253>>>>,
      <<64, 36,
        <<110, 229, 89, 3, 180, 241, 251, 74, 23, 211, 50, 173, 175, 160, 248, 251,
          150, 38, 108, 154, 212, 143, 2, 102, 163, 233, 254, 8, 173, 172, 230, 188>>>>,
      <<66, 1,
        <<112, 149, 181, 133, 65, 182, 89, 27, 93, 189, 209, 229, 81, 218, 196, 209,
          92, 16, 117, 108, 92, 32, 206, 50, 95, 128, 236, 77, 122, 150, 57, 246>>>>,
      <<66, 2,
        <<128, 242, 137, 253, 235, 244, 179, 126, 185, 214, 99, 46, 19, 19, 185, 70,
          102, 18, 180, 144, 220, 53, 53, 81, 123, 230, 177, 8, 217, 153, 82, 215>>>>,
      <<66, 3,
        <<214, 161, 222, 11, 176, 208, 192, 20, 128, 31, 220, 233, 228, 0, 111, 173,
          5, 136, 248, 80, 1, 169, 189, 197, 71, 2, 62, 116, 5, 199, 91, 156>>>>,
      <<66, 4,
        <<67, 221, 88, 106, 84, 249, 250, 158, 107, 192, 97, 152, 193, 156, 152, 102,
          246, 8, 247, 179, 62, 247, 212, 99, 111, 3, 33, 108, 30, 35, 76, 80>>>>,
      <<66, 5,
        <<246, 20, 136, 102, 87, 128, 66, 84, 61, 99, 67, 230, 34, 246, 132, 32,
          142, 230, 230, 80, 142, 10, 232, 43, 93, 191, 1, 156, 234, 92, 128, 187>>>>,
      <<66, 6,
        <<111, 14, 39, 222, 173, 17, 117, 169, 88, 249, 196, 51, 104, 98, 164, 83,
          219, 39, 144, 176, 148, 68, 126, 178, 211, 199, 220, 196, 213, 60, 88, 193>>>>,
      <<66, 7,
        <<7, 148, 169, 147, 7, 23, 243, 34, 1, 216, 87, 101, 142, 236, 223, 140,
          253, 229, 99, 239, 127, 217, 240, 223, 31, 33, 149, 81, 6, 6, 153, 114>>>>,
      <<66, 8,
        <<155, 84, 146, 219, 218, 162, 99, 239, 251, 202, 223, 174, 114, 231, 44, 66,
          72, 3, 114, 75, 142, 250, 24, 188, 161, 190, 44, 153, 134, 234, 3, 185>>>>,
      <<66, 9,
        <<103, 23, 185, 254, 152, 158, 252, 2, 224, 158, 186, 63, 242, 248, 58, 207,
          95, 16, 33, 11, 212, 61, 248, 2, 76, 214, 23, 69, 4, 106, 189, 68>>>>,
      <<66, 33,
        <<225, 38, 188, 86, 156, 71, 92, 31, 190, 92, 61, 174, 255, 46, 80, 37,
          243, 95, 235, 175, 232, 17, 12, 87, 34, 71, 197, 112, 118, 122, 113, 25>>>>,
      <<66, 34,
        <<51, 238, 194, 165, 145, 1, 141, 213, 170, 157, 181, 245, 109, 245, 158, 120,
          243, 247, 15, 128, 64, 241, 214, 75, 235, 181, 32, 57, 137, 61, 250, 35>>>>,
      <<66, 36,
        <<12, 149, 97, 125, 191, 80, 66, 37, 86, 15, 36, 194, 0, 207, 247, 225,
          68, 210, 145, 46, 62, 145, 207, 146, 24, 1, 111, 150, 207, 109, 187, 139>>>>,
      <<66, 46,
        <<176, 151, 138, 5, 29, 71, 33, 53, 158, 108, 86, 182, 213, 162, 87, 118,
          57, 61, 210, 142, 248, 214, 224, 56, 129, 211, 45, 159, 121, 154, 157, 18>>>>,
      <<66, 64,
        <<192, 52, 106, 170, 230, 76, 217, 84, 105, 93, 75, 198, 201, 153, 86, 218,
          148, 118, 99, 34, 25, 189, 134, 187, 63, 16, 245, 241, 102, 78, 35, 162>>>>,
      <<69, 35,
        <<82, 2, 252, 213, 242, 224, 75, 168, 1, 217, 210, 54, 14, 233, 76, 172,
          85, 137, 155, 187, 167, 247, 223, 248, 103, 101, 251, 128, 43, 199, 5, 39>>>>,
      <<69, 44,
        <<163, 107, 205, 223, 211, 212, 132, 163, 6, 192, 65, 94, 109, 245, 241, 126,
          29, 212, 215, 203, 85, 188, 91, 196, 109, 70, 48, 147, 171, 105, 71, 148>>>>,
      <<69, 47,
        <<159, 34, 122, 212, 211, 205, 100, 236, 65, 230, 238, 223, 155, 209, 109, 231,
          216, 251, 105, 143, 226, 57, 214, 206, 74, 126, 71, 71, 203, 70, 40, 140>>>>,
      <<69, 49,
        <<204, 48, 75, 24, 70, 53, 242, 247, 106, 80, 77, 39, 175, 240, 42, 3,
          153, 87, 111, 137, 220, 110, 217, 134, 52, 124, 60, 195, 189, 46, 198, 18>>>>,
      <<64, 71,
        <<0, 231, 223, 31, 79, 138, 167, 158, 105, 75, 186, 97, 168, 20, 86, 98,
          64, 141, 146, 172, 59, 80, 245, 146, 64, 125, 164, 131, 125, 6, 107, 36>>>>,
      <<64, 72,
        <<54, 68, 222, 6, 43, 49, 66, 189, 123, 45, 176, 246, 143, 83, 24, 165,
          184, 142, 73, 153, 123, 78, 19, 200, 169, 91, 19, 35, 93, 241, 47, 211>>>>,
      <<64, 73,
        <<91, 57, 227, 139, 218, 108, 70, 119, 211, 248, 221, 15, 176, 123, 103, 130,
          99, 126, 23, 150, 248, 4, 73, 46, 206, 208, 153, 36, 231, 195, 17, 22>>>>,
      <<64, 74,
        <<215, 41, 112, 16, 168, 188, 181, 106, 36, 109, 161, 51, 240, 106, 247, 1,
          162, 140, 35, 168, 106, 4, 162, 148, 154, 225, 176, 101, 97, 89, 20, 209>>>>,
      <<64, 75,
        <<12, 144, 17, 148, 84, 254, 240, 172, 65, 185, 135, 47, 249, 5, 187, 33,
          189, 8, 110, 194, 77, 96, 86, 33, 152, 5, 117, 201, 210, 145, 150, 62>>>>,
      <<51, 76,
        <<167, 1, 24, 213, 150, 181, 98, 58, 129, 237, 30, 111, 80, 15, 251, 60,
          55, 109, 9, 134, 184, 208, 186, 218, 56, 123, 124, 14, 98, 192, 206, 217>>>>,
      <<52, 76,
        <<42, 45, 93, 194, 182, 128, 78, 95, 170, 0, 255, 68, 130, 69, 74, 189,
          119, 114, 156, 117, 212, 210, 200, 240, 225, 180, 221, 75, 181, 30, 238, 76>>>>,
      <<53, 76,
        <<89, 36, 154, 196, 241, 156, 130, 193, 248, 97, 187, 137, 139, 93, 134, 109,
          241, 182, 174, 221, 145, 194, 152, 116, 64, 68, 182, 52, 227, 159, 83, 62>>>>,
      <<54, 76,
        <<223, 156, 82, 195, 5, 139, 112, 43, 92, 207, 187, 248, 127, 66, 121, 189,
          67, 189, 217, 183, 46, 26, 233, 206, 109, 128, 221, 153, 34, 37, 166, 98>>>>,
      <<55, 76,
        <<31, 236, 65, 14, 143, 164, 155, 27, 153, 181, 254, 136, 69, 131, 131, 217,
          27, 61, 96, 98, 214, 161, 95, 156, 243, 223, 215, 130, 139, 59, 67, 184>>>>,
      <<56, 76,
        <<41, 178, 59, 68, 199, 233, 82, 221, 196, 73, 162, 41, 249, 150, 245, 47,
          185, 141, 138, 73, 90, 180, 28, 153, 42, 80, 221, 230, 81, 6, 144, 193>>>>,
      <<57, 76,
        <<93, 187, 10, 244, 123, 62, 232, 182, 222, 204, 157, 189, 20, 102, 205, 210,
          212, 182, 62, 241, 113, 253, 135, 32, 169, 86, 88, 190, 246, 221, 185, 56>>>>,
      <<58, 76,
        <<19, 226, 118, 179, 180, 247, 100, 48, 27, 146, 246, 42, 107, 61, 45, 43,
          197, 131, 252, 112, 108, 114, 79, 45, 249, 178, 69, 119, 174, 252, 159, 111>>>>,
      <<59, 76,
        <<108, 86, 219, 194, 234, 109, 95, 65, 223, 103, 58, 189, 175, 135, 156, 49,
          193, 197, 228, 213, 229, 100, 86, 197, 27, 229, 9, 171, 192, 231, 32, 157>>>>,
      <<64, 76,
        <<152, 139, 92, 177, 67, 69, 115, 77, 140, 33, 59, 219, 66, 8, 5, 149,
          225, 90, 242, 50, 121, 54, 72, 169, 224, 43, 254, 246, 82, 2, 26, 11>>>>,
      <<64, 77,
        <<46, 159, 52, 74, 42, 64, 99, 7, 197, 160, 162, 186, 180, 179, 214, 210,
          195, 59, 151, 40, 167, 195, 156, 131, 213, 147, 16, 234, 40, 51, 229, 98>>>>,
      <<64, 78,
        <<247, 235, 235, 16, 130, 6, 219, 46, 231, 182, 27, 84, 4, 118, 178, 184,
          4, 49, 101, 166, 205, 36, 113, 255, 211, 164, 245, 63, 85, 161, 92, 47>>>>,
      <<78, 1,
        <<21, 150, 131, 221, 221, 177, 99, 211, 103, 148, 42, 136, 82, 36, 253, 23,
          199, 6, 85, 202, 41, 197, 56, 169, 123, 144, 9, 232, 212, 196, 26, 84>>>>,
      <<78, 2,
        <<39, 212, 43, 32, 198, 251, 35, 215, 73, 135, 0, 100, 197, 46, 231, 68,
          180, 145, 67, 178, 127, 99, 54, 201, 238, 48, 75, 4, 69, 11, 158, 47>>>>,
      <<78, 3,
        <<55, 237, 65, 224, 25, 43, 53, 93, 199, 68, 208, 143, 78, 244, 230, 126,
          160, 91, 113, 13, 15, 7, 120, 187, 196, 120, 162, 107, 144, 81, 125, 69>>>>,
      <<78, 4,
        <<59, 38, 76, 246, 182, 130, 15, 124, 174, 9, 7, 79, 78, 163, 255, 186,
          29, 15, 173, 84, 104, 48, 142, 242, 53, 67, 46, 81, 169, 162, 130, 255>>>>,
      <<78, 5,
        <<137, 118, 123, 200, 235, 88, 79, 39, 250, 10, 8, 56, 219, 84, 131, 50,
          64, 106, 43, 96, 239, 24, 212, 73, 163, 165, 151, 38, 238, 4, 77, 133>>>>,
      <<78, 6,
        <<1, 109, 96, 226, 158, 33, 28, 164, 0, 158, 222, 136, 156, 21, 75, 172,
          127, 42, 60, 48, 234, 131, 118, 160, 68, 41, 192, 99, 59, 48, 27, 44>>>>,
      <<78, 7,
        <<10, 54, 142, 183, 181, 127, 109, 186, 107, 197, 27, 3, 172, 182, 129, 221,
          232, 16, 89, 34, 52, 233, 252, 78, 104, 214, 160, 66, 135, 199, 8, 107>>>>,
      <<78, 8,
        <<188, 71, 48, 156, 135, 119, 222, 37, 118, 166, 115, 228, 161, 27, 242, 188,
          72, 100, 134, 35, 157, 225, 119, 181, 96, 213, 240, 96, 170, 102, 76, 47>>>>,
      <<78, 9,
        <<81, 180, 70, 36, 142, 42, 60, 214, 156, 7, 85, 14, 171, 65, 247, 44,
          9, 208, 91, 116, 126, 26, 189, 191, 236, 77, 86, 155, 122, 19, 193, 143>>>>,
      <<78, 33,
        <<211, 184, 62, 78, 20, 236, 152, 175, 25, 76, 253, 228, 13, 36, 247, 119,
          142, 122, 122, 211, 46, 129, 113, 50, 239, 171, 225, 182, 172, 227, 11, 187>>>>,
      <<78, 34,
        <<226, 80, 83, 8, 239, 69, 137, 53, 53, 120, 213, 49, 159, 134, 125, 129,
          211, 99, 88, 79, 166, 116, 159, 148, 225, 255, 26, 224, 207, 83, 123, 164>>>>,
      <<78, 36,
        <<18, 98, 24, 165, 221, 226, 249, 194, 161, 91, 13, 149, 146, 51, 122, 20,
          223, 124, 137, 47, 222, 164, 148, 66, 132, 209, 188, 174, 242, 77, 27, 7>>>>,
      <<78, 46,
        <<198, 36, 229, 69, 84, 53, 149, 48, 230, 190, 70, 131, 143, 186, 126, 25,
          121, 132, 140, 170, 23, 181, 36, 67, 190, 254, 211, 114, 97, 33, 43, 191>>>>,
      <<78, 64,
        <<160, 51, 52, 17, 200, 107, 66, 111, 177, 255, 14, 45, 35, 192, 108, 104,
          87, 160, 174, 177, 51, 170, 186, 169, 10, 169, 29, 152, 86, 255, 59, 30>>>>,
      <<64, 79,
        <<25, 138, 63, 17, 6, 150, 90, 73, 179, 173, 218, 213, 232, 252, 47, 67,
          223, 203, 77, 249, 231, 232, 238, 45, 155, 88, 37, 200, 135, 161, 243, 230>>>>,
      <<64, 80,
        <<110, 44, 185, 39, 146, 23, 181, 20, 245, 120, 223, 124, 100, 82, 181, 122,
          147, 106, 155, 115, 47, 147, 77, 192, 112, 163, 57, 136, 147, 153, 12, 172>>>>,
      <<64, 81,
        <<144, 237, 249, 163, 103, 229, 71, 2, 37, 230, 85, 109, 189, 240, 191, 135,
          45, 75, 87, 119, 234, 31, 185, 188, 244, 127, 24, 162, 94, 163, 126, 253>>>>,
      <<64, 82,
        <<161, 123, 251, 190, 208, 158, 214, 68, 146, 174, 68, 26, 29, 100, 54, 10,
          189, 111, 52, 235, 39, 107, 20, 180, 173, 217, 6, 84, 153, 31, 133, 16>>>>,
      <<82, 51,
        <<25, 163, 152, 118, 85, 23, 204, 187, 227, 166, 51, 46, 144, 96, 135, 213,
          147, 88, 94, 221, 172, 21, 138, 27, 173, 57, 28, 149, 114, 133, 58, 191>>>>,
      <<82, 55,
        <<27, 75, 40, 78, 103, 58, 221, 67, 10, 5, 81, 23, 210, 200, 172, 189,
          148, 79, 127, 3, 96, 30, 180, 123, 135, 34, 241, 126, 132, 78, 12, 200>>>>,
      <<82, 58,
        <<148, 44, 205, 192, 98, 190, 35, 94, 12, 254, 198, 55, 10, 163, 235, 60,
          247, 221, 43, 143, 217, 122, 163, 80, 172, 5, 68, 222, 110, 120, 39, 99>>>>,
      <<64, 83,
        <<76, 154, 128, 229, 24, 55, 19, 53, 164, 199, 55, 145, 59, 31, 140, 230,
          202, 228, 200, 13, 220, 158, 221, 51, 10, 215, 21, 63, 167, 93, 44, 70>>>>,
      <<36, 90,
        <<90, 162, 127, 165, 31, 123, 0, 9, 6, 27, 140, 192, 120, 153, 217, 74,
          123, 21, 236, 121, 141, 204, 36, 36, 111, 195, 175, 153, 85, 142, 16, 182>>>>,
      <<38, 90,
        <<134, 80, 48, 133, 63, 50, 14, 169, 238, 192, 159, 151, 159, 193, 77, 115,
          176, 118, 239, 189, 233, 196, 94, 217, 130, 211, 109, 61, 67, 152, 169, 229>>>>,
      <<42, 90,
        <<242, 202, 182, 77, 100, 239, 191, 187, 174, 63, 250, 234, 11, 104, 133, 192,
          245, 67, 74, 64, 44, 53, 235, 163, 197, 33, 30, 78, 88, 135, 201, 11>>>>,
      <<48, 90,
        <<105, 184, 65, 167, 58, 252, 168, 37, 195, 35, 92, 50, 63, 225, 254, 210,
          86, 244, 24, 32, 119, 238, 189, 74, 50, 150, 154, 102, 154, 129, 220, 230>>>>,
      <<56, 90,
        <<74, 180, 212, 147, 163, 183, 250, 174, 164, 180, 204, 209, 48, 125, 242, 240,
          101, 222, 26, 166, 171, 177, 228, 222, 75, 136, 20, 164, 12, 253, 69, 230>>>>,
      <<64, 90,
        <<203, 163, 13, 183, 142, 172, 164, 229, 127, 130, 176, 65, 247, 88, 95, 58,
          17, 81, 47, 209, 204, 8, 83, 84, 124, 162, 50, 159, 193, 128, 117, 170>>>>,
      <<66, 90,
        <<186, 106, 163, 22, 62, 231, 246, 206, 231, 139, 178, 144, 11, 54, 12, 17,
          84, 138, 234, 107, 216, 64, 141, 21, 187, 46, 37, 8, 113, 100, 164, 110>>>>,
      <<78, 90,
        <<27, 222, 71, 90, 54, 136, 167, 196, 63, 184, 35, 45, 69, 78, 25, 95,
          66, 64, 38, 65, 247, 178, 176, 174, 186, 11, 108, 32, 130, 252, 74, 220>>>>,
      <<90, 2,
        <<29, 10, 80, 122, 28, 23, 75, 9, 31, 160, 115, 216, 0, 7, 16, 61,
          129, 17, 232, 71, 204, 3, 7, 235, 243, 167, 20, 201, 225, 30, 118, 93>>>>,
      <<92, 1,
        <<154, 129, 110, 11, 72, 177, 9, 46, 2, 203, 9, 142, 124, 225, 70, 201,
          170, 249, 89, 0, 120, 112, 128, 56, 146, 11, 102, 169, 154, 23, 58, 74>>>>,
      <<92, 2,
        <<38, 147, 142, 13, 75, 139, 156, 25, 225, 120, 78, 67, 117, 46, 135, 75,
          41, 13, 135, 192, 174, 109, 148, 35, 187, 203, 242, 245, 211, 207, 160, 36>>>>,
      <<92, 3,
        <<213, 163, 188, 100, 27, 177, 97, 208, 104, 156, 155, 186, 24, 66, 111, 52,
          13, 243, 42, 184, 43, 148, 163, 239, 6, 140, 67, 204, 32, 21, 214, 78>>>>,
      <<92, 4,
        <<210, 71, 116, 67, 250, 227, 190, 19, 115, 35, 17, 87, 131, 133, 87, 100,
          167, 244, 161, 157, 138, 34, 204, 55, 110, 146, 130, 83, 248, 16, 9, 115>>>>,
      <<92, 5,
        <<51, 64, 119, 75, 3, 163, 248, 83, 24, 225, 30, 31, 236, 58, 222, 214,
          97, 103, 168, 19, 103, 118, 227, 13, 61, 191, 157, 16, 73, 175, 135, 122>>>>,
      <<92, 6,
        <<183, 215, 246, 180, 195, 245, 57, 134, 10, 196, 184, 191, 1, 111, 213, 63,
          75, 241, 152, 233, 69, 195, 197, 144, 45, 253, 64, 4, 35, 129, 2, 101>>>>,
      <<92, 7,
        <<253, 199, 149, 220, 121, 5, 6, 116, 45, 20, 199, 190, 137, 170, 55, 171,
          103, 253, 42, 202, 193, 235, 160, 178, 82, 46, 75, 235, 212, 204, 178, 219>>>>,
      <<92, 8,
        <<159, 111, 239, 223, 70, 8, 95, 53, 213, 217, 248, 86, 58, 118, 168, 13,
          246, 79, 148, 11, 242, 119, 225, 202, 12, 171, 206, 100, 208, 224, 3, 92>>>>,
      <<92, 9,
        <<129, 116, 37, 214, 109, 134, 109, 178, 159, 116, 52, 100, 233, 115, 203, 3,
          40, 35, 29, 158, 16, 25, 142, 94, 247, 36, 93, 122, 242, 85, 255, 165>>>>,
      <<92, 33,
        <<90, 54, 227, 5, 76, 79, 103, 56, 95, 173, 164, 82, 212, 150, 148, 165,
          108, 227, 117, 141, 206, 209, 208, 171, 98, 64, 184, 207, 70, 45, 245, 54>>>>,
      <<92, 34,
        <<89, 153, 162, 241, 15, 227, 73, 192, 28, 179, 92, 207, 40, 82, 22, 12,
          140, 43, 17, 111, 182, 114, 241, 64, 144, 43, 59, 141, 2, 77, 227, 38>>>>,
      <<92, 36,
        <<236, 104, 200, 197, 70, 165, 94, 37, 77, 186, 5, 5, 5, 26, 137, 87,
          0, 204, 168, 92, 153, 35, 130, 13, 201, 251, 51, 186, 141, 148, 107, 15>>>>,
      <<92, 46,
        <<160, 208, 186, 205, 55, 189, 44, 197, 196, 222, 244, 115, 220, 95, 109, 168,
          95, 112, 132, 118, 238, 12, 149, 221, 65, 99, 115, 21, 0, 2, 11, 122>>>>,
      <<92, 64,
        <<67, 93, 88, 62, 114, 154, 71, 90, 46, 150, 2, 233, 238, 159, 239, 17,
          51, 158, 21, 27, 88, 179, 185, 176, 35, 16, 24, 52, 217, 175, 99, 159>>>>,
      <<92, 90,
        <<217, 114, 228, 71, 236, 79, 39, 141, 52, 42, 228, 8, 74, 48, 124, 78,
          161, 61, 20, 195, 89, 83, 72, 181, 64, 4, 32, 199, 149, 163, 24, 30>>>>,
      <<97, 69,
        <<168, 205, 171, 138, 184, 230, 127, 48, 65, 32, 82, 175, 150, 155, 53, 118,
          240, 136, 128, 191, 188, 10, 28, 77, 174, 205, 27, 254, 220, 98, 20, 136>>>>,
      <<64, 105,
        <<90, 29, 215, 18, 150, 133, 39, 80, 227, 235, 195, 211, 192, 109, 45, 13,
          150, 48, 66, 157, 197, 209, 89, 10, 112, 39, 69, 207, 211, 76, 70, 163>>>>,
      <<64, 106,
        <<161, 139, 219, 40, 251, 66, 216, 248, 76, 122, 50, 105, 74, 163, 246, 235,
          141, 95, 191, 86, 7, 92, 51, 155, 24, 36, 33, 248, 211, 103, 213, 124>>>>,
      <<75, 106,
        <<183, 21, 40, 74, 13, 136, 64, 70, 2, 59, 3, 83, 236, 154, 160, 180,
          61, 14, 160, 22, 232, 153, 185, 48, 211, 143, 40, 63, 155, 109, 105, 42>>>>,
      <<76, 106,
        <<9, 252, 77, 188, 176, 195, 146, 127, 76, 240, 33, 61, 242, 57, 246, 90,
          170, 189, 148, 34, 11, 173, 160, 150, 94, 27, 128, 13, 249, 24, 49, 10>>>>,
      <<36, 108,
        <<83, 67, 163, 99, 18, 105, 57, 245, 58, 190, 4, 42, 10, 223, 191, 75,
          186, 83, 171, 87, 106, 56, 120, 135, 201, 236, 203, 128, 130, 234, 233, 242>>>>,
      <<38, 108,
        <<27, 8, 32, 216, 150, 32, 240, 176, 255, 245, 21, 160, 71, 87, 18, 199,
          18, 167, 26, 220, 148, 67, 120, 225, 136, 103, 26, 56, 12, 235, 214, 221>>>>,
      <<42, 108,
        <<195, 208, 104, 18, 76, 141, 201, 68, 50, 123, 157, 27, 210, 254, 251, 224,
          161, 108, 146, 42, 240, 173, 44, 30, 171, 151, 251, 254, 112, 236, 60, 0>>>>,
      <<48, 108,
        <<163, 26, 203, 112, 31, 201, 121, 70, 250, 55, 213, 54, 69, 156, 189, 110,
          209, 93, 30, 116, 4, 116, 63, 213, 220, 122, 46, 139, 120, 240, 150, 190>>>>,
      <<56, 108,
        <<148, 53, 54, 168, 134, 83, 65, 208, 223, 234, 59, 184, 69, 221, 228, 216,
          86, 170, 252, 52, 245, 250, 147, 56, 73, 203, 97, 250, 35, 2, 145, 156>>>>,
      <<66, 108,
        <<45, 230, 84, 78, 93, 27, 222, 150, 193, 17, 255, 176, 223, 62, 83, 136,
          234, 195, 114, 98, 227, 104, 157, 150, 203, 237, 184, 148, 247, 4, 84, 212>>>>,
      <<78, 108,
        <<83, 18, 154, 113, 237, 13, 42, 255, 90, 75, 42, 213, 112, 213, 97, 26,
          129, 190, 82, 83, 42, 90, 196, 254, 159, 100, 32, 177, 76, 189, 71, 98>>>>,
      <<92, 108,
        <<55, 43, 212, 104, 44, 188, 157, 184, 66, 42, 252, 52, 150, 128, 207, 248,
          204, 215, 142, 229, 235, 79, 177, 210, 15, 35, 219, 52, 126, 233, 40, 155>>>>,
      <<108, 1,
        <<24, 9, 198, 175, 47, 56, 93, 104, 244, 194, 99, 14, 100, 19, 244, 235,
          94, 101, 193, 133, 64, 68, 77, 214, 132, 190, 28, 119, 219, 183, 74, 32>>>>,
      <<108, 2,
        <<83, 139, 141, 175, 117, 49, 59, 160, 50, 57, 238, 154, 150, 134, 93, 97,
          62, 228, 19, 144, 249, 73, 143, 107, 31, 113, 6, 108, 130, 194, 62, 70>>>>,
      <<108, 3,
        <<58, 21, 2, 113, 215, 61, 140, 193, 107, 215, 3, 168, 81, 9, 123, 59,
          220, 223, 118, 245, 3, 136, 3, 2, 215, 141, 114, 83, 27, 144, 90, 107>>>>,
      <<108, 4,
        <<238, 120, 99, 16, 109, 61, 183, 228, 105, 12, 46, 16, 49, 12, 72, 118,
          203, 219, 246, 16, 131, 103, 86, 246, 87, 31, 92, 239, 48, 41, 10, 162>>>>,
      <<108, 5,
        <<189, 254, 91, 120, 73, 248, 227, 135, 113, 79, 46, 40, 205, 220, 201, 234,
          121, 235, 61, 127, 247, 78, 84, 213, 82, 163, 188, 130, 242, 65, 69, 6>>>>,
      <<108, 6,
        <<234, 226, 54, 106, 54, 208, 129, 115, 23, 100, 206, 158, 180, 202, 35, 67,
          207, 16, 168, 168, 187, 232, 23, 138, 247, 248, 71, 4, 194, 234, 79, 215>>>>,
      <<108, 7,
        <<234, 248, 224, 18, 70, 93, 64, 7, 142, 94, 140, 236, 53, 159, 181, 158,
          83, 194, 128, 80, 189, 92, 54, 248, 43, 142, 163, 30, 64, 36, 143, 4>>>>,
      <<108, 8,
        <<45, 209, 147, 106, 144, 110, 27, 127, 33, 0, 83, 113, 249, 228, 138, 39,
          198, 144, 214, 49, 2, 232, 217, 205, 195, 28, 150, 135, 55, 185, 182, 45>>>>,
      <<108, 9,
        <<206, 31, 47, 232, 6, 23, 14, 200, 123, 152, 151, 68, 152, 42, 224, 132,
          8, 124, 245, 112, 188, 14, 22, 158, 82, 225, 98, 122, 186, 79, 61, 40>>>>,
      <<108, 33,
        <<160, 173, 195, 167, 8, 167, 156, 19, 213, 218, 251, 235, 71, 228, 146, 110,
          28, 179, 233, 179, 104, 54, 166, 70, 54, 172, 66, 45, 118, 225, 157, 112>>>>,
      <<108, 34,
        <<119, 165, 140, 129, 127, 156, 24, 35, 66, 185, 235, 72, 117, 25, 37, 82,
          210, 12, 83, 72, 109, 187, 24, 2, 189, 224, 82, 88, 166, 57, 112, 90>>>>,
      <<108, 36,
        <<62, 147, 61, 70, 201, 54, 205, 24, 63, 58, 182, 46, 7, 149, 145, 237,
          171, 30, 188, 105, 216, 94, 129, 86, 207, 62, 91, 181, 170, 176, 159, 170>>>>,
      <<108, 46,
        <<17, 98, 70, 13, 45, 57, 186, 83, 9, 160, 112, 100, 201, 145, 8, 143,
          254, 242, 139, 64, 48, 85, 162, 249, 225, 195, 187, 128, 149, 189, 14, 9>>>>,
      <<108, 64,
        <<125, 237, 143, 76, 11, 247, 250, 127, 88, 63, 223, 72, 93, 92, 140, 26,
          23, 225, 232, 253, 177, 112, 3, 25, 48, 233, 177, 77, 183, 147, 161, 54>>>>,
      <<108, 90,
        <<212, 124, 107, 164, 69, 14, 17, 67, 9, 61, 101, 143, 76, 204, 57, 60,
          183, 163, 178, 163, 118, 144, 47, 63, 230, 29, 209, 107, 129, 81, 61, 247>>>>,
      <<114, 82,
        <<120, 175, 164, 139, 205, 155, 33, 178, 108, 141, 151, 167, 121, 133, 232, 213,
          243, 224, 221, 127, 178, 252, 75, 48, 27, 78, 158, 200, 250, 95, 250, 171>>>>,
      <<64, 124,
        <<112, 124, 237, 252, 125, 62, 41, 104, 123, 201, 181, 202, 93, 175, 250, 133,
          142, 102, 206, 40, 112, 59, 140, 185, 211, 113, 233, 34, 42, 254, 6, 96>>>>,
      <<90, 124,
        <<141, 165, 205, 67, 46, 59, 6, 48, 133, 232, 179, 107, 14, 239, 231, 94,
          27, 66, 79, 128, 151, 236, 212, 125, 20, 1, 18, 118, 2, 151, 24, 200>>>>,
      <<133, 97,
        <<130, 223, 170, 251, 2, 15, 205, 215, 121, 162, 12, 218, 197, 79, 204, 188,
          46, 213, 13, 38, 12, 150, 52, 67, 52, 188, 52, 135, 33, 181, 42, 145>>>>,
      <<124, 135,
        <<0, 2, 177, 192, 3, 182, 198, 154, 36, 248, 37, 118, 57, 122, 176, 126,
          34, 187, 116, 119, 238, 79, 106, 144, 186, 192, 122, 30, 49, 57, 246, 242>>>>,
      <<124, 136,
        <<18, 206, 49, 144, 154, 210, 22, 225, 117, 2, 43, 43, 10, 168, 243, 44,
          26, 129, 99, 120, 174, 112, 199, 114, 139, 164, 235, 134, 189, 188, 47, 40>>>>,
      <<124, 137,
        <<8, 30, 78, 240, 120, 205, 111, 93, 40, 129, 61, 62, 186, 230, 171, 19,
          17, 255, 188, 35, 85, 234, 68, 153, 40, 228, 94, 193, 236, 142, 67, 111>>>>,
      <<124, 138,
        <<162, 134, 6, 185, 233, 184, 235, 167, 165, 196, 153, 199, 61, 13, 84, 248,
          72, 40, 13, 186, 67, 129, 157, 105, 190, 205, 118, 96, 175, 150, 101, 208>>>>,
      <<124, 139,
        <<245, 202, 155, 78, 8, 105, 118, 42, 42, 205, 113, 66, 49, 189, 142, 218,
          33, 83, 174, 85, 174, 9, 114, 214, 149, 3, 14, 89, 110, 170, 216, 176>>>>,
      <<124, 140,
        <<156, 65, 128, 8, 177, 127, 4, 247, 14, 170, 166, 178, 39, 71, 158, 234,
          249, 217, 43, 26, 31, 101, 189, 205, 38, 122, 209, 243, 28, 186, 23, 129>>>>,
      <<124, 141,
        <<149, 231, 155, 129, 114, 175, 29, 213, 153, 150, 61, 31, 170, 7, 161, 40,
          59, 76, 238, 21, 87, 138, 180, 96, 39, 108, 129, 189, 52, 10, 152, 136>>>>,
      <<124, 142,
        <<206, 230, 65, 208, 137, 240, 155, 241, 126, 187, 31, 146, 54, 221, 32, 66,
          129, 90, 181, 15, 197, 135, 93, 5, 226, 197, 47, 78, 242, 22, 248, 19>>>>,
      <<124, 143,
        <<246, 235, 223, 56, 106, 81, 105, 136, 32, 74, 88, 105, 194, 173, 236, 12,
          90, 103, 127, 80, 218, 104, 57, 247, 103, 22, 140, 201, 124, 49, 80, 193>>>>,
      <<99, 144,
        <<3, 168, 240, 248, 246, 225, 216, 160, 225, 65, 117, 72, 209, 32, 147, 8,
          53, 77, 117, 185, 7, 120, 233, 41, 158, 125, 110, 223, 71, 11, 227, 72>>>>,
      <<100, 144,
        <<89, 42, 111, 92, 140, 105, 208, 138, 191, 121, 81, 197, 178, 235, 153, 184,
          149, 142, 195, 238, 160, 117, 118, 139, 108, 235, 39, 51, 79, 12, 84, 119>>>>,
      <<101, 144,
        <<209, 23, 28, 5, 192, 129, 173, 109, 76, 25, 212, 162, 180, 212, 180, 8,
          119, 24, 215, 77, 112, 199, 165, 85, 113, 240, 235, 95, 213, 89, 41, 103>>>>,
      <<102, 144,
        <<59, 220, 219, 244, 207, 235, 235, 82, 173, 134, 43, 232, 233, 62, 139, 224,
          78, 161, 2, 188, 150, 177, 89, 30, 42, 25, 96, 60, 10, 175, 87, 67>>>>,
      <<103, 144,
        <<32, 161, 87, 198, 160, 217, 180, 130, 118, 46, 250, 73, 167, 215, 162, 141,
          95, 253, 198, 92, 150, 167, 77, 147, 29, 214, 122, 116, 111, 26, 94, 81>>>>,
      <<104, 144,
        <<56, 65, 92, 10, 246, 162, 49, 71, 25, 219, 74, 148, 72, 217, 118, 44,
          81, 209, 31, 59, 64, 23, 23, 57, 198, 205, 163, 31, 197, 253, 180, 17>>>>,
      <<105, 144,
        <<152, 148, 28, 129, 96, 233, 166, 212, 142, 188, 46, 196, 76, 233, 149, 170,
          78, 120, 14, 98, 87, 115, 218, 42, 232, 205, 12, 38, 46, 184, 230, 97>>>>,
      <<106, 144,
        <<238, 136, 84, 7, 51, 171, 44, 160, 127, 152, 185, 122, 141, 2, 228, 85,
          231, 212, 27, 234, 202, 4, 102, 178, 68, 45, 138, 237, 77, 72, 128, 173>>>>,
      <<107, 144,
        <<171, 92, 112, 87, 138, 202, 76, 72, 138, 147, 156, 234, 211, 170, 240, 168,
          199, 87, 88, 180, 92, 106, 211, 184, 236, 47, 236, 248, 82, 134, 233, 89>>>>,
      <<108, 144,
        <<136, 140, 149, 225, 165, 10, 96, 243, 235, 15, 84, 175, 231, 71, 227, 36,
          53, 73, 163, 138, 220, 73, 21, 144, 245, 95, 151, 198, 43, 148, 77, 89>>>>,
      <<109, 144,
        <<243, 199, 70, 44, 124, 209, 5, 140, 28, 214, 23, 177, 158, 246, 185, 22,
          69, 45, 174, 148, 115, 249, 151, 210, 38, 140, 220, 28, 196, 134, 30, 18>>>>,
      <<110, 144,
        <<33, 227, 127, 51, 13, 44, 59, 177, 64, 131, 70, 183, 69, 238, 19, 106,
          19, 240, 2, 66, 27, 134, 93, 49, 225, 96, 208, 69, 179, 43, 48, 155>>>>,
      <<111, 144,
        <<87, 94, 114, 110, 201, 229, 205, 239, 74, 58, 176, 61, 53, 115, 5, 156,
          111, 234, 8, 237, 45, 225, 141, 240, 197, 245, 151, 222, 94, 130, 139, 45>>>>,
      <<112, 144,
        <<23, 243, 122, 47, 254, 164, 132, 192, 33, 199, 241, 181, 10, 208, 171, 166,
          52, 153, 117, 51, 222, 52, 124, 139, 155, 165, 229, 166, 233, 63, 21, 185>>>>,
      <<113, 144,
        <<68, 55, 249, 123, 85, 148, 179, 148, 171, 222, 118, 153, 186, 84, 218, 228,
          235, 139, 88, 192, 147, 184, 1, 165, 95, 24, 209, 137, 231, 19, 79, 163>>>>,
      <<114, 144,
        <<199, 118, 136, 22, 129, 130, 47, 195, 85, 234, 212, 150, 111, 36, 127, 198,
          10, 164, 43, 127, 170, 219, 202, 240, 230, 178, 203, 32, 213, 126, 78, 193>>>>,
      <<115, 144,
        <<166, 88, 13, 103, 92, 104, 118, 240, 101, 95, 190, 121, 174, 132, 156, 112,
          188, 224, 143, 204, 253, 57, 108, 101, 23, 30, 233, 221, 102, 221, 194, 123>>>>,
      <<124, 144,
        <<123, 14, 37, 198, 31, 200, 87, 192, 202, 12, 194, 254, 15, 20, 2, 185,
          160, 44, 12, 186, 213, 126, 208, 89, 133, 239, 12, 2, 33, 49, 26, 187>>>>,
      <<124, 145,
        <<137, 202, 228, 56, 197, 8, 77, 249, 178, 131, 219, 153, 64, 242, 157, 20,
          152, 157, 224, 169, 223, 35, 51, 97, 117, 100, 23, 182, 77, 173, 136, 46>>>>,
      <<124, 146,
        <<34, 243, 215, 99, 159, 70, 26, 147, 49, 169, 160, 41, 53, 97, 42, 77,
          29, 113, 100, 82, 122, 207, 224, 213, 151, 20, 142, 105, 84, 69, 109, 33>>>>,
      <<124, 147,
        <<101, 63, 230, 143, 183, 231, 37, 84, 82, 81, 77, 120, 132, 239, 135, 229,
          154, 142, 44, 46, 239, 156, 53, 9, 39, 223, 191, 156, 29, 253, 245, 162>>>>,
      <<124, 148,
        <<237, 188, 12, 21, 80, 114, 162, 184, 205, 23, 227, 176, 154, 195, 150, 195,
          130, 195, 222, 217, 157, 250, 179, 67, 203, 132, 33, 128, 158, 234, 93, 228>>>>,
      <<124, 149,
        <<166, 94, 143, 208, 200, 136, 174, 132, 144, 225, 147, 67, 216, 215, 20, 82,
          57, 83, 168, 20, 85, 47, 23, 72, 205, 161, 111, 55, 104, 23, 193, 128>>>>,
      <<124, 150,
        <<210, 223, 103, 38, 156, 220, 155, 247, 245, 133, 160, 106, 82, 158, 244, 22,
          249, 255, 12, 164, 239, 11, 110, 220, 4, 187, 234, 250, 190, 248, 37, 244>>>>,
      <<124, 151,
        <<120, 169, 93, 104, 87, 56, 53, 0, 146, 110, 60, 164, 180, 116, 219, 117,
          241, 189, 223, 52, 179, 11, 193, 76, 247, 153, 4, 168, 106, 5, 175, 120>>>>,
      <<124, 152,
        <<24, 231, 137, 161, 62, 81, 151, 25, 2, 68, 175, 125, 96, 141, 234, 117,
          151, 143, 13, 18, 206, 40, 220, 132, 157, 200, 83, 23, 120, 145, 222, 126>>>>,
      <<124, 153,
        <<28, 207, 169, 234, 141, 59, 197, 196, 172, 90, 208, 118, 77, 90, 213, 140,
          250, 134, 96, 141, 153, 217, 181, 207, 27, 64, 239, 96, 67, 133, 245, 192>>>>,
      <<124, 154,
        <<228, 111, 149, 84, 208, 133, 180, 71, 3, 23, 192, 205, 223, 78, 199, 204,
          178, 199, 121, 229, 27, 152, 69, 39, 204, 146, 18, 251, 252, 197, 110, 108>>>>,
      <<154, 114,
        <<170, 158, 20, 35, 210, 230, 131, 155, 234, 123, 221, 11, 12, 48, 35, 148,
          197, 51, 200, 65, 127, 39, 106, 54, 52, 145, 98, 223, 61, 254, 237, 42>>>>,
      <<124, 155,
        <<78, 171, 48, 217, 159, 106, 1, 108, 250, 190, 143, 12, 80, 194, 55, 173,
          41, 131, 14, 10, 174, 252, 186, 16, 25, 238, 219, 244, 11, 248, 153, 77>>>>,
      <<124, 166,
        <<26, 200, 225, 108, 190, 233, 245, 178, 96, 76, 72, 232, 38, 66, 38, 24,
          241, 217, 26, 28, 81, 26, 173, 248, 165, 155, 56, 79, 178, 208, 197, 224>>>>,
      <<177, 133,
        <<85, 245, 106, 3, 213, 127, 153, 74, 107, 78, 68, 201, 233, 238, 18, 3,
          212, 75, 134, 125, 121, 26, 87, 42, 250, 35, 173, 253, 61, 168, 133, 82>>>>,
      <<144, 179,
        <<190, 49, 210, 180, 56, 59, 162, 223, 35, 196, 207, 68, 205, 85, 182, 9,
          66, 101, 171, 86, 222, 196, 181, 215, 83, 144, 171, 12, 125, 204, 70, 10>>>>,
      <<180, 154,
        <<20, 123, 14, 14, 138, 4, 186, 31, 1, 185, 151, 22, 179, 68, 119, 194,
          130, 100, 6, 229, 66, 124, 201, 35, 55, 49, 142, 193, 163, 126, 77, 118>>>>,
      <<166, 181,
        <<29, 13, 145, 59, 176, 171, 41, 80, 27, 141, 240, 245, 87, 43, 189, 189,
          188, 58, 224, 24, 137, 106, 171, 163, 35, 18, 192, 105, 28, 247, 183, 229>>>>,
      <<182, 177,
        <<95, 47, 168, 88, 209, 139, 11, 239, 124, 17, 173, 229, 235, 20, 166, 142,
          199, 191, 235, 178, 76, 100, 202, 70, 151, 248, 204, 191, 148, 200, 2, 140>>>>,
      <<179, 183,
        <<249, 216, 209, 99, 86, 138, 82, 198, 141, 2, 135, 226, 255, 12, 110, 225,
          128, 105, 128, 88, 253, 87, 62, 42, 151, 23, 63, 201, 210, 41, 121, 156>>>>,
      <<184, 180,
        <<154, 48, 213, 88, 157, 197, 21, 131, 224, 226, 19, 70, 158, 216, 114, 146,
          143, 244, 0, 185, 13, 184, 146, 183, 141, 246, 194, 49, 67, 185, 160, 64>>>>,
      <<181, 185,
        <<222, 35, 35, 198, 44, 11, 152, 131, 150, 214, 132, 122, 181, 110, 231, 139,
          161, 23, 234, 92, 90, 159, 95, 101, 105, 133, 143, 100, 18, 105, 102, 159>>>>,
      <<186, 182,
        <<94, 206, 189, 99, 209, 57, 206, 79, 62, 184, 134, 127, 54, 26, 244, 165,
          184, 124, 1, 200, 97, 8, 239, 97, 90, 153, 187, 185, 21, 173, 194, 92>>>>,
      <<183, 187,
        <<23, 108, 134, 59, 72, 224, 153, 91, 227, 17, 80, 97, 252, 22, 170, 149,
          91, 145, 218, 153, 111, 123, 34, 84, 88, 63, 227, 21, 117, 22, 10, 67>>>>,
      <<188, 184,
        <<52, 36, 227, 134, 23, 218, 181, 164, 80, 142, 187, 43, 116, 10, 173, 200,
          159, 196, 234, 80, 150, 201, 239, 183, 215, 24, 8, 225, 193, 40, 131, 201>>>>,
      <<185, 189,
        <<115, 253, 67, 156, 204, 107, 109, 250, 63, 147, 26, 149, 128, 175, 227, 184,
          230, 202, 250, 235, 121, 90, 100, 29, 185, 14, 143, 140, 49, 32, 46, 46>>>>,
      <<190, 186,
        <<90, 239, 60, 58, 170, 41, 77, 146, 149, 33, 20, 41, 131, 23, 204, 83,
          233, 136, 107, 173, 197, 230, 77, 87, 105, 229, 191, 118, 89, 190, 143, 130>>>>,
      <<187, 191,
        <<96, 182, 78, 133, 64, 30, 66, 102, 1, 240, 21, 93, 25, 158, 67, 209,
          146, 123, 67, 191, 86, 98, 97, 158, 245, 32, 89, 88, 215, 61, 133, 29>>>>,
      <<192, 188,
        <<38, 16, 127, 237, 247, 70, 15, 77, 103, 159, 159, 199, 2, 240, 67, 61,
          232, 126, 118, 88, 197, 145, 249, 12, 217, 229, 15, 42, 49, 182, 217, 64>>>>,
      <<189, 193,
        <<184, 169, 113, 222, 219, 106, 70, 113, 94, 128, 76, 252, 127, 238, 194, 78,
          168, 135, 102, 196, 202, 106, 164, 4, 183, 213, 8, 14, 57, 232, 19, 78>>>>,
      <<194, 190,
        <<73, 40, 114, 86, 13, 234, 211, 195, 100, 170, 19, 22, 211, 242, 73, 193,
          97, 131, 3, 23, 100, 28, 120, 27, 199, 172, 246, 4, 240, 171, 45, 126>>>>,
      <<191, 195,
        <<182, 227, 129, 111, 36, 31, 243, 47, 198, 252, 91, 183, 129, 85, 29, 119,
          62, 181, 220, 170, 99, 237, 180, 20, 167, 175, 161, 203, 157, 206, 142, 81>>>>,
      <<196, 192,
        <<136, 143, 224, 208, 6, 139, 138, 16, 69, 156, 78, 238, 237, 129, 72, 16,
          14, 116, 225, 173, 118, 2, 219, 251, 20, 202, 190, 242, 170, 173, 56, 110>>>>,
      <<193, 197,
        <<28, 205, 183, 197, 214, 43, 170, 59, 198, 242, 55, 235, 154, 222, 75, 107,
          61, 144, 145, 104, 86, 199, 159, 121, 158, 212, 188, 28, 243, 55, 209, 19>>>>,
      <<198, 194,
        <<17, 47, 99, 81, 81, 233, 110, 176, 88, 19, 221, 143, 108, 147, 102, 103,
          11, 62, 62, 228, 123, 163, 35, 95, 133, 29, 217, 64, 50, 243, 79, 210>>>>,
      <<195, 199,
        <<193, 231, 30, 160, 211, 108, 233, 141, 232, 110, 132, 64, 113, 214, 196, 139,
          1, 168, 237, 26, 207, 92, 124, 20, 174, 139, 222, 237, 38, 253, 221, 135>>>>,
      <<200, 196,
        <<94, 69, 117, 28, 23, 230, 84, 159, 71, 139, 77, 22, 108, 192, 35, 247,
          30, 253, 189, 180, 77, 98, 213, 19, 170, 87, 130, 143, 123, 195, 205, 227>>>>,
      <<197, 201,
        <<250, 139, 125, 2, 246, 163, 245, 222, 204, 245, 112, 238, 24, 44, 131, 195,
          134, 101, 72, 236, 161, 244, 101, 39, 54, 215, 2, 214, 101, 226, 174, 9>>>>,
      <<202, 198,
        <<143, 226, 211, 23, 104, 57, 2, 237, 84, 133, 3, 182, 8, 223, 123, 22,
          210, 109, 55, 226, 194, 179, 215, 165, 170, 223, 165, 127, 220, 243, 190, 20>>>>,
      <<203, 204,
        <<90, 15, 179, 85, 131, 121, 47, 12, 24, 58, 84, 17, 4, 135, 146, 208,
          34, 39, 39, 92, 84, 17, 66, 253, 135, 73, 68, 24, 217, 172, 192, 84>>>>,
      <<205, 206,
        <<130, 153, 88, 92, 182, 169, 126, 205, 235, 87, 208, 114, 234, 234, 215, 92,
          136, 201, 152, 96, 112, 105, 124, 92, 250, 120, 252, 200, 137, 145, 199, 157>>>>,
      <<1, 207,
        <<219, 228, 103, 36, 178, 127, 237, 203, 24, 143, 28, 241, 57, 249, 57, 68,
          116, 191, 90, 139, 77, 80, 45, 111, 79, 222, 158, 176, 67, 201, 136, 224>>>>,
      <<2, 207,
        <<220, 136, 110, 165, 123, 41, 203, 225, 123, 152, 158, 24, 229, 0, 183, 196,
          59, 134, 112, 119, 2, 233, 228, 218, 44, 191, 254, 1, 232, 249, 233, 119>>>>,
      <<3, 207,
        <<33, 179, 237, 45, 0, 32, 147, 144, 46, 179, 223, 71, 89, 5, 58, 30,
          39, 149, 42, 6, 63, 112, 175, 189, 139, 123, 255, 8, 183, 152, 192, 223>>>>,
      <<33, 207,
        <<207, 87, 102, 190, 171, 94, 37, 176, 74, 162, 66, 68, 228, 190, 49, 172,
          196, 78, 178, 184, 255, 171, 172, 222, 140, 150, 66, 30, 119, 76, 89, 168>>>>,
      <<34, 207,
        <<187, 50, 43, 204, 31, 33, 159, 8, 246, 46, 162, 16, 143, 80, 25, 212,
          182, 222, 238, 250, 185, 154, 227, 176, 130, 195, 243, 234, 88, 232, 243, 251>>>>,
      <<35, 207,
        <<93, 205, 211, 171, 219, 76, 237, 217, 184, 97, 90, 195, 206, 63, 234, 1,
          81, 46, 119, 100, 192, 16, 103, 157, 54, 12, 70, 144, 131, 191, 70, 45>>>>,
      <<36, 207,
        <<59, 208, 93, 48, 69, 105, 134, 229, 34, 96, 4, 79, 220, 77, 105, 16,
          55, 96, 37, 226, 164, 205, 154, 23, 109, 165, 31, 46, 54, 148, 146, 220>>>>,
      <<39, 207,
        <<4, 253, 230, 70, 177, 45, 2, 134, 69, 75, 122, 221, 209, 63, 125, 246,
          239, 134, 125, 185, 116, 105, 149, 173, 19, 122, 104, 209, 27, 32, 67, 171>>>>,
      <<207, 1,
        <<122, 194, 39, 165, 116, 22, 160, 75, 0, 206, 136, 238, 140, 190, 165, 191,
          69, 88, 68, 161, 218, 110, 187, 31, 93, 24, 253, 27, 224, 137, 177, 61>>>>,
      <<207, 2,
        <<62, 131, 196, 2, 204, 250, 134, 121, 209, 41, 170, 160, 161, 159, 239, 78,
          125, 200, 85, 29, 218, 66, 56, 253, 204, 224, 110, 8, 59, 104, 29, 178>>>>,
      <<207, 3,
        <<85, 58, 66, 118, 27, 62, 170, 148, 210, 9, 4, 136, 220, 169, 92, 80,
          89, 185, 209, 173, 61, 184, 178, 44, 68, 146, 91, 45, 227, 234, 229, 223>>>>,
      <<207, 4,
        <<67, 65, 172, 63, 131, 104, 148, 246, 229, 98, 234, 246, 183, 220, 122, 147,
          134, 104, 35, 138, 111, 85, 26, 97, 243, 166, 68, 160, 231, 7, 77, 128>>>>,
      <<207, 33,
        <<43, 66, 125, 16, 173, 129, 226, 142, 221, 152, 11, 211, 68, 179, 226, 158,
          185, 250, 100, 39, 124, 227, 191, 177, 170, 240, 217, 49, 244, 111, 128, 97>>>>,
      <<207, 34,
        <<35, 133, 177, 84, 211, 53, 10, 0, 146, 232, 73, 124, 205, 29, 254, 82,
          189, 205, 236, 124, 45, 9, 239, 122, 182, 108, 166, 242, 41, 180, 107, 121>>>>,
      <<207, 35,
        <<124, 42, 76, 154, 82, 187, 173, 33, 175, 158, 214, 98, 125, 33, 119, 124,
          68, 59, 92, 28, 6, 75, 66, 61, 56, 23, 70, 119, 109, 198, 181, 228>>>>,
      <<207, 36,
        <<116, 149, 183, 10, 170, 158, 230, 73, 193, 222, 209, 106, 222, 58, 247, 4,
          85, 169, 121, 123, 147, 39, 8, 35, 78, 206, 14, 143, 134, 31, 152, 121>>>>,
      <<207, 38,
        <<141, 209, 16, 78, 254, 132, 45, 38, 210, 232, 146, 111, 48, 189, 161, 96,
          189, 214, 176, 209, 176, 168, 128, 29, 138, 239, 37, 192, 244, 213, 93, 188>>>>,
      <<207, 39,
        <<66, 94, 46, 79, 200, 160, 58, 223, 236, 71, 127, 125, 122, 130, 240, 236,
          92, 152, 117, 175, 93, 38, 245, 6, 189, 63, 159, 144, 73, 0, 5, 102>>>>,
      <<207, 40,
        <<142, 209, 155, 22, 159, 126, 88, 241, 233, 33, 240, 5, 242, 128, 114, 140,
          40, 99, 231, 21, 20, 108, 236, 21, 203, 229, 219, 127, 144, 142, 167, 98>>>>,
      <<207, 41,
        <<154, 176, 24, 63, 45, 26, 47, 120, 171, 77, 32, 30, 14, 168, 96, 71,
          14, 153, 91, 111, 102, 253, 95, 149, 146, 234, 204, 175, 246, 71, 112, 188>>>>,
      <<207, 42,
        <<133, 229, 58, 44, 73, 115, 192, 5, 8, 68, 160, 134, 152, 90, 50, 251,
          207, 40, 131, 125, 202, 246, 68, 190, 65, 242, 169, 3, 246, 154, 104, 253>>>>,
      <<207, 43,
        <<23, 10, 215, 130, 33, 213, 55, 66, 199, 46, 229, 212, 16, 32, 249, 194,
          54, 66, 65, 124, 246, 189, 35, 186, 134, 155, 9, 168, 10, 10, 52, 95>>>>,
      <<207, 46,
        <<46, 93, 9, 83, 0, 62, 71, 16, 220, 150, 38, 234, 226, 136, 172, 239,
          94, 127, 248, 200, 101, 126, 243, 37, 193, 168, 204, 120, 1, 24, 46, 245>>>>,
      <<1, 208,
        <<50, 142, 4, 134, 10, 82, 145, 220, 152, 22, 150, 71, 136, 133, 60, 110,
          232, 72, 99, 121, 61, 204, 21, 161, 23, 82, 106, 85, 246, 214, 146, 112>>>>,
      <<2, 208,
        <<136, 33, 128, 230, 137, 239, 107, 174, 104, 136, 9, 155, 181, 166, 173, 228,
          220, 194, 154, 107, 63, 38, 238, 217, 151, 134, 92, 253, 67, 47, 38, 205>>>>,
      <<3, 208,
        <<215, 31, 134, 187, 86, 73, 248, 124, 181, 117, 230, 166, 142, 133, 115, 61,
          212, 59, 31, 227, 182, 237, 255, 125, 195, 127, 162, 30, 233, 161, 142, 127>>>>,
      <<33, 208,
        <<18, 90, 102, 110, 85, 248, 43, 61, 179, 124, 224, 253, 247, 91, 55, 237,
          136, 218, 231, 215, 213, 83, 137, 61, 206, 191, 104, 221, 203, 140, 35, 67>>>>,
      <<34, 208,
        <<54, 153, 36, 36, 247, 100, 120, 6, 162, 112, 115, 7, 20, 34, 167, 76,
          7, 174, 254, 20, 239, 218, 38, 19, 81, 146, 237, 111, 55, 143, 179, 93>>>>,
      <<35, 208,
        <<73, 176, 171, 123, 187, 40, 115, 224, 191, 214, 131, 191, 43, 8, 47, 168,
          252, 183, 207, 182, 221, 124, 211, 199, 90, 20, 63, 156, 233, 128, 159, 244>>>>,
      <<36, 208,
        <<26, 147, 146, 129, 87, 147, 82, 94, 163, 108, 60, 54, 195, 63, 130, 182,
          244, 186, 8, 165, 102, 189, 54, 106, 196, 240, 84, 149, 215, 170, 138, 243>>>>,
      <<37, 208,
        <<130, 49, 145, 224, 223, 36, 153, 114, 220, 197, 142, 112, 68, 220, 83, 66,
          27, 102, 125, 48, 37, 6, 134, 190, 168, 156, 147, 146, 44, 170, 204, 94>>>>,
      <<40, 208,
        <<99, 222, 102, 127, 144, 19, 11, 204, 24, 27, 96, 0, 150, 104, 217, 197,
          186, 38, 56, 90, 58, 28, 38, 8, 157, 222, 63, 200, 54, 146, 97, 42>>>>,
      <<1, 209,
        <<224, 58, 142, 7, 10, 155, 108, 9, 169, 174, 144, 49, 212, 45, 37, 143,
          71, 192, 220, 202, 107, 225, 45, 161, 40, 152, 8, 104, 42, 98, 140, 10>>>>,
      <<2, 209,
        <<50, 78, 63, 195, 11, 119, 91, 223, 56, 108, 43, 53, 150, 112, 6, 13,
          228, 117, 215, 104, 116, 220, 175, 245, 39, 151, 136, 244, 115, 132, 195, 213>>>>,
      <<3, 209,
        <<209, 139, 146, 143, 155, 39, 174, 117, 111, 176, 187, 157, 28, 128, 171, 80,
          144, 158, 66, 156, 140, 19, 151, 186, 215, 148, 29, 118, 78, 76, 91, 144>>>>,
      <<4, 209,
        <<179, 195, 234, 247, 170, 181, 57, 234, 215, 198, 24, 52, 194, 157, 25, 114,
          230, 11, 170, 191, 213, 85, 81, 192, 77, 38, 60, 10, 238, 246, 158, 236>>>>,
      <<33, 209,
        <<67, 6, 99, 39, 54, 19, 43, 155, 81, 235, 94, 113, 94, 154, 60, 22,
          39, 1, 37, 178, 74, 183, 244, 220, 219, 152, 124, 234, 63, 83, 151, 191>>>>,
      <<34, 209,
        <<134, 123, 154, 71, 24, 170, 66, 120, 40, 32, 204, 198, 122, 212, 226, 226,
          232, 124, 18, 120, 178, 127, 147, 115, 197, 255, 66, 113, 144, 119, 80, 12>>>>,
      <<36, 209,
        <<221, 166, 73, 206, 149, 93, 126, 229, 113, 115, 219, 13, 3, 227, 3, 157,
          159, 219, 48, 113, 113, 1, 179, 2, 205, 188, 63, 123, 99, 214, 104, 42>>>>,
      <<41, 209,
        <<59, 66, 28, 201, 112, 73, 85, 44, 196, 7, 33, 32, 255, 123, 191, 173,
          100, 178, 215, 22, 68, 239, 26, 157, 198, 228, 7, 140, 236, 226, 205, 2>>>>,
      <<42, 209,
        <<141, 248, 231, 159, 96, 250, 19, 173, 221, 178, 133, 87, 113, 231, 203, 139,
          72, 171, 210, 183, 77, 76, 24, 47, 116, 135, 131, 83, 219, 114, 157, 195>>>>,
      <<46, 209,
        <<179, 230, 109, 199, 39, 150, 206, 211, 28, 219, 211, 28, 21, 0, 252, 250,
          24, 240, 23, 75, 127, 39, 212, 254, 39, 140, 83, 95, 15, 162, 59, 82>>>>,
      <<1, 210,
        <<254, 13, 32, 27, 3, 237, 62, 204, 69, 72, 97, 220, 107, 40, 39, 115,
          53, 147, 197, 173, 49, 56, 225, 67, 167, 153, 80, 42, 121, 106, 49, 4>>>>,
      <<2, 210,
        <<131, 66, 105, 102, 171, 62, 123, 57, 197, 33, 12, 93, 86, 37, 77, 210,
          2, 205, 196, 131, 153, 60, 160, 226, 29, 134, 125, 224, 14, 205, 134, 56>>>>,
      <<3, 210,
        <<3, 72, 212, 83, 49, 69, 246, 207, 104, 59, 212, 23, 111, 235, 135, 144,
          178, 203, 5, 107, 127, 198, 170, 131, 36, 253, 53, 47, 127, 204, 41, 123>>>>,
      <<33, 210,
        <<139, 25, 134, 132, 54, 153, 106, 245, 84, 146, 35, 4, 90, 122, 141, 208,
          28, 28, 172, 149, 28, 252, 147, 96, 113, 53, 6, 19, 115, 240, 5, 25>>>>,
      <<34, 210,
        <<52, 235, 136, 148, 201, 72, 172, 181, 71, 136, 22, 26, 212, 153, 23, 220,
          40, 33, 27, 250, 33, 222, 52, 45, 246, 200, 202, 23, 211, 109, 214, 200>>>>,
      <<35, 210,
        <<141, 252, 100, 227, 82, 16, 115, 151, 80, 138, 124, 148, 204, 13, 5, 196,
          69, 247, 247, 173, 22, 173, 127, 137, 150, 154, 103, 222, 249, 241, 190, 92>>>>,
      <<36, 210,
        <<47, 95, 137, 244, 155, 134, 175, 173, 211, 47, 27, 236, 67, 172, 63, 61,
          251, 201, 85, 70, 142, 121, 83, 174, 108, 188, 124, 10, 147, 211, 215, 200>>>>,
      <<37, 210,
        <<143, 43, 183, 70, 218, 6, 152, 53, 3, 1, 243, 141, 105, 86, 139, 249,
          194, 46, 131, 67, 30, 240, 103, 218, 221, 138, 183, 141, 159, 38, 228, 118>>>>,
      <<41, 210,
        <<109, 206, 11, 127, 127, 98, 101, 158, 157, 223, 82, 171, 75, 101, 168, 124,
          38, 34, 45, 34, 236, 72, 58, 254, 80, 207, 36, 135, 12, 218, 131, 119>>>>,
      <<210, 1,
        <<241, 110, 10, 58, 133, 114, 236, 221, 183, 216, 160, 246, 74, 25, 206, 96,
          66, 145, 185, 151, 191, 98, 15, 183, 177, 204, 207, 38, 135, 44, 188, 151>>>>,
      <<210, 2,
        <<151, 139, 242, 147, 64, 90, 33, 135, 72, 129, 58, 134, 171, 116, 255, 87,
          229, 134, 67, 143, 0, 247, 92, 154, 81, 117, 140, 15, 41, 12, 136, 235>>>>,
      <<210, 3,
        <<225, 154, 224, 109, 30, 93, 94, 229, 81, 61, 140, 7, 206, 194, 188, 64,
          75, 42, 31, 63, 48, 78, 232, 20, 26, 104, 146, 17, 198, 136, 255, 144>>>>,
      <<210, 33,
        <<33, 157, 154, 83, 62, 154, 161, 210, 103, 218, 34, 64, 31, 200, 163, 217,
          10, 128, 219, 38, 230, 64, 118, 74, 118, 205, 245, 133, 84, 218, 32, 111>>>>,
      <<210, 34,
        <<95, 97, 58, 212, 119, 156, 0, 184, 156, 12, 128, 149, 203, 116, 228, 89,
          194, 251, 95, 178, 94, 189, 97, 232, 233, 117, 209, 133, 147, 219, 60, 67>>>>,
      <<210, 35,
        <<47, 233, 2, 24, 236, 108, 183, 190, 220, 10, 160, 135, 98, 178, 108, 169,
          134, 210, 39, 101, 164, 206, 8, 155, 123, 222, 241, 231, 124, 195, 23, 138>>>>,
      <<210, 36,
        <<17, 201, 121, 175, 131, 99, 144, 175, 17, 253, 229, 72, 141, 255, 244, 73,
          58, 51, 101, 105, 77, 40, 83, 175, 183, 33, 40, 197, 73, 171, 146, 109>>>>,
      <<210, 38,
        <<229, 9, 113, 80, 202, 91, 201, 141, 94, 180, 196, 106, 27, 134, 212, 255,
          46, 115, 53, 237, 10, 17, 95, 208, 16, 245, 141, 153, 124, 103, 118, 127>>>>,
      <<210, 40,
        <<10, 86, 112, 146, 190, 57, 165, 33, 84, 27, 149, 180, 162, 190, 20, 178,
          31, 201, 166, 93, 195, 190, 246, 185, 192, 223, 236, 100, 107, 119, 208, 243>>>>,
      <<1, 211,
        <<35, 236, 244, 85, 9, 228, 248, 221, 107, 184, 186, 18, 44, 135, 123, 168,
          248, 4, 111, 86, 34, 65, 81, 128, 223, 136, 108, 112, 68, 175, 105, 255>>>>,
      <<2, 211,
        <<3, 165, 137, 128, 136, 199, 169, 42, 79, 208, 166, 7, 177, 38, 218, 13,
          92, 25, 54, 77, 12, 55, 150, 15, 224, 66, 9, 249, 78, 73, 36, 49>>>>,
      <<3, 211,
        <<17, 154, 38, 60, 139, 81, 185, 255, 12, 12, 118, 173, 207, 38, 75, 49,
          62, 189, 163, 110, 119, 200, 219, 172, 96, 226, 84, 111, 44, 185, 106, 226>>>>,
      <<33, 211,
        <<136, 228, 138, 172, 209, 52, 225, 103, 6, 19, 52, 22, 127, 32, 193, 236,
          244, 237, 253, 85, 107, 191, 180, 51, 162, 186, 225, 22, 175, 92, 241, 253>>>>,
      <<34, 211,
        <<158, 177, 206, 28, 18, 68, 132, 132, 47, 187, 160, 61, 60, 9, 146, 93,
          193, 198, 229, 36, 165, 174, 59, 150, 103, 129, 156, 146, 151, 76, 200, 65>>>>,
      <<35, 211,
        <<248, 6, 193, 191, 91, 198, 248, 167, 179, 136, 102, 223, 179, 174, 236, 157,
          31, 81, 66, 212, 135, 233, 132, 39, 36, 99, 200, 85, 196, 181, 239, 155>>>>,
      <<36, 211,
        <<248, 241, 254, 82, 202, 119, 175, 208, 139, 205, 121, 131, 74, 78, 98, 18,
          236, 7, 97, 204, 130, 32, 189, 149, 255, 188, 134, 216, 139, 211, 206, 77>>>>,
      <<38, 211,
        <<207, 184, 218, 44, 72, 15, 190, 248, 161, 182, 177, 113, 153, 156, 170, 213,
          108, 152, 131, 102, 63, 229, 48, 233, 253, 81, 86, 168, 128, 164, 74, 61>>>>,
      <<42, 211,
        <<39, 116, 252, 108, 216, 225, 232, 212, 43, 38, 182, 107, 105, 208, 14, 142,
          226, 216, 20, 50, 57, 118, 72, 176, 189, 99, 77, 70, 255, 65, 58, 246>>>>,
      <<211, 1,
        <<19, 255, 31, 35, 145, 163, 19, 188, 252, 17, 21, 84, 166, 114, 216, 104,
          110, 213, 135, 232, 224, 230, 42, 35, 105, 167, 47, 160, 8, 133, 121, 39>>>>,
      <<211, 2,
        <<143, 174, 157, 11, 235, 5, 252, 204, 95, 80, 59, 192, 136, 106, 172, 10,
          149, 31, 42, 231, 160, 168, 182, 161, 101, 8, 161, 56, 235, 138, 55, 135>>>>,
      <<211, 3,
        <<208, 105, 164, 136, 150, 28, 19, 40, 109, 125, 152, 128, 138, 198, 134, 19,
          36, 10, 163, 71, 99, 139, 248, 24, 247, 189, 238, 82, 14, 19, 28, 70>>>>,
      <<211, 4,
        <<97, 87, 153, 146, 11, 183, 91, 102, 123, 16, 74, 173, 2, 129, 169, 176,
          184, 114, 24, 67, 46, 27, 65, 2, 151, 23, 70, 7, 205, 196, 151, 237>>>>,
      <<211, 5,
        <<235, 48, 172, 25, 10, 236, 230, 200, 172, 44, 240, 62, 143, 137, 163, 10,
          175, 187, 128, 242, 52, 132, 179, 89, 214, 53, 139, 233, 124, 207, 76, 200>>>>,
      <<211, 6,
        <<246, 142, 147, 172, 82, 75, 246, 65, 101, 16, 186, 89, 158, 89, 67, 113,
          95, 59, 22, 21, 169, 231, 142, 12, 138, 84, 217, 52, 164, 188, 176, 95>>>>,
      <<211, 7,
        <<58, 252, 22, 98, 97, 178, 89, 174, 255, 232, 214, 70, 33, 23, 193, 74,
          218, 44, 85, 75, 216, 183, 113, 98, 25, 144, 64, 59, 220, 27, 122, 97>>>>,
      <<211, 8,
        <<29, 13, 222, 98, 10, 61, 110, 33, 144, 9, 102, 55, 173, 143, 210, 5,
          95, 146, 82, 60, 162, 138, 60, 138, 199, 43, 85, 185, 2, 95, 238, 152>>>>,
      <<211, 9,
        <<9, 194, 80, 64, 69, 70, 71, 167, 150, 55, 64, 116, 181, 207, 95, 70,
          81, 137, 227, 59, 228, 52, 59, 107, 24, 21, 17, 21, 75, 249, 238, 97>>>>,
      <<211, 33,
        <<245, 49, 235, 201, 47, 111, 49, 17, 92, 111, 112, 219, 171, 246, 225, 176,
          255, 225, 26, 85, 119, 89, 210, 231, 191, 43, 87, 93, 72, 219, 126, 126>>>>,
      <<211, 34,
        <<174, 247, 153, 105, 171, 17, 7, 222, 228, 214, 14, 53, 221, 219, 225, 37,
          197, 88, 196, 114, 135, 177, 64, 192, 47, 175, 211, 30, 51, 140, 27, 60>>>>,
      <<211, 35,
        <<31, 16, 139, 53, 147, 160, 43, 62, 228, 169, 120, 99, 105, 53, 21, 146,
          111, 49, 203, 235, 49, 71, 126, 59, 147, 83, 250, 220, 213, 152, 138, 239>>>>,
      <<211, 36,
        <<70, 57, 194, 215, 12, 207, 129, 157, 241, 22, 80, 0, 118, 95, 36, 7,
          9, 188, 71, 36, 107, 217, 118, 240, 255, 127, 205, 250, 226, 98, 137, 236>>>>,
      <<211, 38,
        <<59, 55, 116, 148, 193, 51, 6, 86, 107, 171, 67, 0, 46, 196, 149, 28,
          209, 10, 169, 112, 228, 94, 197, 68, 30, 219, 86, 247, 167, 121, 182, 158>>>>,
      <<211, 39,
        <<217, 132, 233, 187, 80, 210, 240, 70, 67, 139, 76, 242, 136, 208, 105, 94,
          186, 117, 104, 101, 138, 221, 121, 172, 35, 195, 177, 243, 62, 63, 222, 72>>>>,
      <<211, 40,
        <<80, 204, 87, 15, 65, 130, 13, 162, 140, 191, 213, 229, 143, 58, 144, 20,
          86, 225, 11, 43, 187, 96, 188, 197, 64, 183, 253, 88, 18, 105, 90, 3>>>>,
      <<211, 41,
        <<151, 187, 213, 251, 53, 121, 36, 219, 240, 10, 247, 248, 15, 80, 174, 16,
          12, 178, 7, 210, 70, 195, 43, 25, 72, 44, 130, 18, 68, 39, 209, 209>>>>,
      <<211, 42,
        <<177, 140, 107, 142, 91, 103, 40, 183, 26, 101, 123, 79, 172, 118, 208, 89,
          153, 238, 129, 122, 253, 245, 204, 228, 145, 226, 191, 31, 114, 129, 174, 233>>>>,
      <<211, 43,
        <<3, 23, 132, 176, 90, 175, 216, 106, 127, 14, 77, 155, 116, 36, 6, 115,
          41, 45, 136, 168, 43, 189, 27, 33, 16, 212, 164, 152, 24, 13, 177, 226>>>>,
      <<211, 46,
        <<250, 75, 216, 210, 184, 52, 166, 76, 96, 177, 105, 84, 29, 217, 123, 109,
          50, 78, 87, 6, 165, 15, 254, 201, 49, 182, 206, 206, 134, 0, 239, 198>>>>,
      <<211, 64,
        <<95, 80, 180, 217, 190, 41, 126, 63, 165, 125, 250, 158, 236, 224, 50, 154,
          219, 91, 155, 88, 137, 30, 225, 122, 24, 247, 218, 122, 91, 109, 5, 228>>>>,
      <<211, 90,
        <<208, 81, 219, 159, 117, 242, 113, 226, 122, 25, 242, 140, 100, 121, 44, 110,
          141, 164, 96, 131, 224, 195, 169, 234, 34, 3, 91, 114, 99, 31, 186, 170>>>>,
      <<211, 108,
        <<238, 142, 113, 175, 97, 7, 175, 155, 207, 117, 94, 44, 114, 221, 21, 62,
          252, 124, 163, 49, 124, 151, 189, 128, 114, 208, 134, 5, 20, 5, 22, 11>>>>,
      <<1, 212,
        <<75, 177, 133, 249, 209, 76, 150, 206, 227, 78, 49, 166, 97, 93, 78, 79,
          39, 148, 190, 174, 33, 33, 179, 86, 145, 15, 37, 155, 88, 24, 235, 200>>>>,
      <<2, 212,
        <<82, 19, 254, 164, 248, 120, 117, 191, 112, 227, 183, 161, 222, 251, 11, 177,
          165, 148, 244, 201, 248, 199, 232, 184, 236, 71, 214, 252, 102, 14, 212, 20>>>>,
      <<3, 212,
        <<115, 231, 151, 14, 65, 55, 111, 246, 119, 81, 255, 149, 67, 79, 183, 191,
          28, 93, 226, 15, 42, 205, 125, 90, 71, 241, 45, 39, 10, 217, 48, 152>>>>,
      <<33, 212,
        <<38, 175, 129, 20, 197, 163, 165, 208, 195, 252, 216, 248, 142, 255, 198, 129,
          224, 159, 228, 253, 240, 104, 230, 129, 43, 174, 175, 113, 7, 233, 117, 27>>>>,
      <<34, 212,
        <<209, 111, 16, 230, 188, 195, 183, 108, 246, 40, 135, 55, 2, 232, 95, 156,
          192, 30, 149, 150, 146, 224, 252, 85, 39, 194, 195, 64, 252, 116, 125, 200>>>>,
      <<35, 212,
        <<246, 36, 81, 118, 34, 115, 83, 193, 126, 176, 129, 209, 182, 43, 215, 126,
          177, 151, 50, 174, 31, 46, 114, 134, 238, 128, 0, 5, 140, 232, 163, 83>>>>,
      <<36, 212,
        <<144, 186, 33, 8, 202, 131, 195, 44, 131, 136, 87, 39, 166, 27, 200, 156,
          202, 238, 176, 19, 35, 70, 95, 108, 229, 61, 15, 177, 116, 230, 192, 59>>>>,
      <<39, 212,
        <<151, 229, 7, 87, 5, 178, 45, 54, 190, 7, 128, 169, 39, 14, 0, 47,
          221, 107, 227, 161, 235, 166, 154, 211, 34, 170, 46, 124, 154, 103, 216, 137>>>>,
      <<40, 212,
        <<246, 141, 170, 65, 84, 241, 154, 146, 6, 1, 104, 253, 241, 60, 11, 1,
          112, 90, 184, 139, 211, 180, 5, 163, 142, 73, 6, 67, 13, 224, 69, 60>>>>,
      <<43, 212,
        <<153, 0, 106, 62, 46, 118, 233, 187, 240, 178, 106, 240, 226, 105, 113, 103,
          110, 154, 199, 235, 200, 88, 114, 115, 103, 178, 15, 149, 19, 159, 228, 147>>>>,
      <<1, 213,
        <<165, 219, 53, 74, 121, 72, 14, 194, 4, 228, 1, 80, 136, 62, 101, 14,
          144, 179, 158, 181, 37, 186, 10, 88, 125, 63, 204, 168, 121, 165, 242, 186>>>>,
      <<2, 213,
        <<89, 104, 78, 63, 56, 177, 56, 174, 175, 75, 248, 80, 251, 215, 189, 213,
          181, 174, 172, 225, 78, 84, 125, 27, 81, 75, 193, 174, 0, 161, 148, 244>>>>,
      <<3, 213,
        <<83, 200, 71, 13, 116, 85, 60, 234, 215, 149, 211, 233, 247, 14, 212, 196,
          13, 176, 117, 214, 150, 48, 172, 88, 45, 51, 72, 33, 246, 80, 231, 125>>>>,
      <<4, 213,
        <<248, 249, 142, 159, 92, 222, 209, 162, 233, 167, 234, 72, 104, 19, 214, 16,
          212, 140, 130, 248, 81, 222, 234, 184, 242, 75, 166, 10, 33, 151, 243, 18>>>>,
      <<33, 213,
        <<0, 51, 57, 84, 192, 175, 232, 44, 133, 96, 212, 214, 94, 228, 203, 102,
          224, 66, 134, 128, 213, 208, 37, 186, 124, 21, 126, 224, 157, 177, 152, 32>>>>,
      <<34, 213,
        <<201, 78, 27, 137, 237, 149, 11, 209, 161, 110, 113, 75, 158, 108, 254, 145,
          16, 136, 239, 61, 199, 145, 46, 64, 5, 136, 64, 16, 162, 24, 114, 94>>>>,
      <<36, 213,
        <<38, 224, 54, 20, 160, 198, 74, 221, 73, 248, 73, 210, 199, 193, 71, 206,
          232, 154, 131, 173, 88, 5, 158, 116, 25, 40, 192, 254, 103, 31, 89, 164>>>>,
      <<46, 213,
        <<2, 248, 125, 79, 221, 1, 100, 187, 88, 4, 198, 14, 229, 198, 24, 116,
          46, 237, 77, 212, 253, 51, 30, 32, 252, 30, 26, 224, 10, 236, 97, 245>>>>,
      <<1, 214,
        <<201, 230, 193, 152, 21, 174, 246, 209, 53, 167, 107, 16, 199, 67, 129, 2,
          1, 232, 186, 249, 219, 222, 25, 241, 84, 19, 165, 137, 219, 38, 246, 250>>>>,
      <<2, 214,
        <<241, 122, 226, 10, 98, 80, 59, 174, 239, 217, 206, 201, 3, 190, 3, 233,
          24, 151, 180, 52, 240, 171, 178, 18, 215, 21, 98, 153, 109, 3, 14, 179>>>>,
      <<3, 214,
        <<140, 189, 82, 77, 222, 32, 45, 43, 253, 92, 63, 25, 214, 71, 184, 237,
          204, 4, 77, 192, 154, 242, 97, 98, 9, 165, 79, 229, 213, 138, 189, 2>>>>,
      <<33, 214,
        <<140, 79, 20, 202, 78, 70, 150, 134, 208, 131, 8, 159, 200, 100, 36, 109,
          154, 208, 4, 216, 121, 227, 95, 112, 167, 136, 161, 41, 202, 158, 15, 221>>>>,
      <<34, 214,
        <<111, 235, 8, 110, 198, 42, 29, 198, 195, 197, 11, 53, 67, 208, 105, 40,
          57, 74, 69, 138, 205, 94, 159, 22, 128, 155, 73, 199, 183, 200, 201, 233>>>>,
      <<35, 214,
        <<143, 157, 9, 153, 157, 144, 113, 59, 166, 253, 152, 76, 255, 136, 229, 107,
          5, 91, 244, 198, 42, 143, 194, 79, 246, 237, 66, 18, 111, 139, 64, 56>>>>,
      <<36, 214,
        <<31, 248, 47, 19, 2, 112, 248, 156, 196, 241, 88, 123, 54, 173, 252, 104,
          157, 225, 152, 25, 2, 62, 157, 236, 216, 106, 119, 112, 113, 225, 203, 233>>>>,
      <<39, 214,
        <<236, 207, 80, 194, 0, 127, 23, 253, 199, 236, 144, 171, 151, 39, 227, 209,
          161, 144, 15, 71, 137, 13, 71, 50, 15, 85, 25, 136, 27, 98, 65, 239>>>>,
      <<214, 1,
        <<77, 253, 246, 0, 174, 142, 224, 83, 196, 60, 32, 174, 81, 234, 66, 111,
          12, 218, 177, 155, 130, 234, 216, 176, 48, 219, 149, 34, 234, 148, 189, 28>>>>,
      <<214, 2,
        <<133, 247, 112, 180, 244, 244, 92, 195, 91, 120, 104, 56, 217, 205, 191, 193,
          240, 182, 97, 70, 251, 177, 235, 132, 158, 15, 113, 79, 122, 90, 245, 168>>>>,
      <<214, 3,
        <<101, 149, 237, 40, 185, 14, 149, 184, 255, 5, 120, 147, 166, 154, 23, 195,
          36, 217, 84, 177, 145, 247, 39, 227, 248, 62, 59, 134, 117, 126, 239, 61>>>>,
      <<214, 4,
        <<42, 65, 118, 22, 107, 34, 120, 173, 83, 253, 176, 240, 136, 84, 104, 145,
          251, 1, 126, 122, 34, 195, 177, 13, 187, 177, 59, 152, 238, 118, 89, 236>>>>,
      <<214, 33,
        <<72, 108, 45, 91, 205, 61, 193, 232, 163, 142, 21, 215, 7, 223, 151, 249,
          240, 121, 184, 8, 48, 80, 57, 201, 43, 30, 237, 244, 232, 23, 3, 188>>>>,
      <<214, 34,
        <<5, 210, 185, 66, 193, 250, 82, 147, 148, 219, 166, 26, 241, 229, 4, 134,
          250, 119, 249, 54, 86, 7, 104, 196, 166, 103, 189, 218, 43, 216, 205, 48>>>>,
      <<214, 36,
        <<14, 121, 84, 178, 71, 152, 230, 174, 109, 97, 153, 251, 236, 3, 137, 95,
          130, 214, 102, 175, 123, 186, 86, 216, 176, 115, 8, 251, 117, 184, 194, 241>>>>,
      <<214, 38,
        <<224, 149, 215, 104, 116, 4, 7, 234, 199, 30, 206, 19, 180, 94, 223, 199,
          237, 184, 45, 55, 177, 84, 153, 47, 247, 225, 111, 97, 105, 205, 80, 193>>>>,
      <<214, 40,
        <<72, 192, 165, 136, 192, 174, 95, 90, 245, 15, 97, 121, 225, 242, 241, 230,
          229, 63, 246, 211, 26, 60, 39, 198, 98, 153, 74, 219, 233, 234, 73, 189>>>>,
      <<214, 42,
        <<135, 31, 9, 80, 118, 134, 221, 226, 37, 39, 245, 31, 205, 28, 222, 28,
          39, 113, 151, 113, 106, 4, 158, 187, 161, 31, 31, 59, 40, 235, 126, 242>>>>,
      <<214, 43,
        <<110, 189, 203, 36, 165, 68, 39, 18, 173, 85, 235, 255, 116, 209, 51, 56,
          203, 115, 44, 34, 239, 104, 222, 198, 104, 235, 81, 81, 16, 165, 10, 239>>>>,
      <<214, 46,
        <<158, 10, 165, 237, 110, 53, 185, 212, 151, 70, 94, 204, 251, 37, 197, 54,
          186, 76, 55, 28, 219, 239, 175, 237, 241, 63, 52, 197, 116, 55, 252, 126>>>>,
      <<1, 215,
        <<210, 183, 66, 210, 193, 5, 31, 129, 14, 11, 237, 26, 107, 228, 237, 222,
          54, 15, 246, 205, 194, 67, 182, 246, 65, 142, 115, 101, 140, 222, 98, 147>>>>,
      <<2, 215,
        <<96, 73, 10, 245, 99, 215, 100, 126, 6, 218, 161, 80, 145, 185, 185, 78,
          32, 141, 76, 19, 251, 29, 218, 49, 42, 135, 237, 159, 45, 152, 228, 172>>>>,
      <<3, 215,
        <<100, 123, 81, 122, 52, 39, 62, 200, 4, 213, 84, 140, 144, 238, 71, 140,
          67, 3, 234, 77, 128, 73, 237, 145, 200, 42, 43, 171, 50, 205, 10, 117>>>>,
      <<33, 215,
        <<70, 57, 61, 111, 218, 199, 176, 64, 51, 163, 43, 236, 196, 200, 122, 157,
          102, 198, 75, 150, 0, 32, 201, 99, 159, 144, 86, 117, 145, 97, 179, 40>>>>,
      <<34, 215,
        <<215, 93, 138, 18, 102, 0, 200, 169, 24, 135, 83, 17, 123, 150, 219, 188,
          26, 81, 152, 42, 51, 27, 170, 219, 125, 129, 119, 116, 163, 110, 34, 53>>>>,
      <<35, 215,
        <<75, 9, 175, 122, 29, 213, 211, 28, 18, 0, 58, 201, 205, 152, 150, 106,
          84, 137, 119, 12, 5, 81, 19, 137, 146, 9, 239, 5, 95, 173, 6, 119>>>>,
      <<36, 215,
        <<124, 252, 159, 40, 145, 30, 164, 148, 146, 159, 0, 20, 82, 220, 130, 67,
          133, 236, 237, 10, 243, 223, 57, 70, 188, 224, 161, 136, 36, 154, 129, 60>>>>,
      <<37, 215,
        <<253, 35, 166, 109, 208, 137, 87, 123, 16, 182, 210, 230, 222, 180, 10, 119,
          156, 43, 226, 58, 239, 2, 154, 5, 13, 45, 175, 230, 211, 40, 255, 37>>>>,
      <<40, 215,
        <<127, 72, 122, 252, 109, 29, 186, 32, 199, 101, 73, 34, 65, 1, 66, 179,
          68, 93, 218, 90, 55, 207, 76, 205, 27, 174, 93, 253, 48, 11, 65, 84>>>>,
      <<1, 216,
        <<41, 16, 107, 218, 110, 17, 110, 158, 217, 204, 44, 149, 171, 248, 59, 36,
          194, 75, 19, 2, 96, 109, 5, 209, 16, 45, 251, 3, 8, 229, 215, 96>>>>,
      <<2, 216,
        <<84, 31, 181, 170, 231, 199, 75, 53, 95, 223, 175, 67, 223, 75, 9, 118,
          77, 14, 83, 253, 151, 103, 207, 0, 182, 134, 2, 133, 139, 238, 16, 252>>>>,
      <<3, 216,
        <<233, 193, 38, 247, 161, 231, 156, 239, 100, 75, 81, 149, 168, 55, 13, 199,
          52, 71, 121, 245, 227, 116, 94, 78, 60, 236, 2, 163, 211, 252, 86, 17>>>>,
      <<4, 216,
        <<3, 41, 193, 188, 23, 210, 54, 53, 53, 233, 196, 52, 105, 109, 5, 219,
          169, 110, 78, 197, 97, 242, 173, 193, 114, 84, 101, 223, 197, 208, 133, 69>>>>,
      <<33, 216,
        <<184, 140, 74, 49, 134, 227, 212, 126, 20, 235, 73, 174, 217, 16, 232, 189,
          211, 141, 11, 4, 171, 50, 2, 77, 202, 85, 236, 50, 99, 227, 252, 241>>>>,
      <<34, 216,
        <<84, 113, 221, 36, 3, 188, 77, 66, 12, 254, 240, 196, 119, 199, 232, 111,
          69, 13, 71, 100, 156, 102, 253, 30, 145, 204, 98, 24, 39, 70, 236, 152>>>>,
      <<36, 216,
        <<0, 40, 243, 113, 210, 211, 193, 158, 90, 53, 80, 4, 6, 74, 7, 4,
          113, 212, 142, 43, 220, 83, 158, 124, 8, 39, 94, 172, 3, 114, 46, 156>>>>,
      <<41, 216,
        <<145, 201, 88, 178, 19, 116, 70, 198, 51, 60, 141, 119, 119, 124, 250, 55,
          144, 39, 136, 191, 133, 209, 93, 69, 104, 9, 113, 231, 96, 136, 53, 150>>>>,
      <<42, 216,
        <<28, 165, 156, 95, 250, 51, 247, 121, 120, 36, 86, 157, 252, 182, 109, 58,
          199, 177, 131, 120, 46, 54, 7, 146, 247, 117, 179, 155, 11, 142, 70, 24>>>>,
      <<46, 216,
        <<163, 102, 123, 176, 147, 168, 163, 18, 238, 43, 122, 192, 4, 193, 241, 87,
          112, 255, 54, 227, 209, 223, 57, 231, 47, 57, 22, 153, 106, 178, 76, 64>>>>,
      <<1, 217,
        <<175, 131, 73, 195, 30, 252, 202, 222, 84, 67, 149, 206, 163, 70, 173, 38,
          202, 36, 3, 79, 106, 71, 40, 222, 244, 65, 43, 252, 65, 222, 38, 121>>>>,
      <<2, 217,
        <<194, 252, 147, 84, 33, 142, 105, 24, 72, 122, 57, 204, 143, 162, 19, 134,
          220, 106, 23, 67, 239, 208, 245, 231, 111, 52, 200, 180, 2, 104, 4, 63>>>>,
      <<3, 217,
        <<234, 210, 194, 239, 40, 218, 71, 234, 176, 144, 162, 239, 55, 113, 130, 110,
          91, 54, 65, 186, 38, 183, 136, 243, 144, 41, 42, 59, 142, 169, 26, 215>>>>,
      <<33, 217,
        <<89, 254, 89, 89, 235, 0, 59, 5, 234, 161, 79, 37, 60, 107, 87, 15,
          49, 138, 3, 49, 241, 82, 74, 26, 16, 116, 168, 71, 140, 94, 57, 15>>>>,
      <<34, 217,
        <<39, 178, 149, 238, 62, 108, 67, 218, 60, 228, 39, 165, 169, 37, 27, 40,
          237, 50, 135, 191, 201, 3, 222, 44, 151, 72, 36, 106, 217, 11, 161, 38>>>>,
      <<35, 217,
        <<174, 193, 250, 20, 115, 213, 251, 158, 181, 98, 224, 191, 236, 70, 155, 132,
          9, 208, 191, 163, 185, 213, 149, 100, 219, 86, 232, 43, 187, 127, 60, 215>>>>,
      <<36, 217,
        <<189, 219, 91, 108, 246, 29, 105, 217, 80, 85, 67, 85, 32, 209, 99, 53,
          5, 32, 148, 174, 82, 247, 65, 46, 27, 18, 45, 127, 44, 203, 227, 140>>>>,
      <<37, 217,
        <<60, 244, 24, 42, 229, 12, 9, 39, 120, 216, 183, 36, 153, 178, 76, 6,
          177, 136, 219, 217, 205, 188, 6, 113, 21, 203, 223, 144, 154, 54, 198, 31>>>>,
      <<41, 217,
        <<67, 201, 18, 124, 186, 54, 52, 248, 121, 14, 152, 125, 20, 142, 44, 110,
          90, 177, 108, 179, 131, 30, 17, 245, 136, 245, 184, 162, 192, 0, 167, 217>>>>,
      <<217, 1,
        <<239, 135, 15, 201, 56, 123, 17, 244, 44, 97, 19, 3, 38, 93, 163, 195,
          19, 189, 169, 183, 171, 105, 125, 199, 96, 121, 189, 66, 86, 230, 11, 161>>>>,
      <<217, 2,
        <<18, 195, 164, 60, 114, 245, 198, 151, 218, 167, 230, 8, 100, 101, 45, 152,
          104, 112, 41, 198, 210, 183, 224, 171, 64, 227, 26, 220, 134, 156, 139, 73>>>>,
      <<217, 3,
        <<90, 34, 42, 169, 197, 85, 52, 202, 101, 204, 128, 177, 1, 9, 63, 10,
          249, 157, 96, 91, 173, 45, 66, 31, 252, 251, 211, 151, 10, 55, 158, 25>>>>,
      <<217, 33,
        <<188, 82, 5, 176, 230, 101, 227, 3, 21, 40, 136, 25, 16, 66, 237, 218,
          8, 79, 88, 180, 44, 43, 130, 50, 186, 132, 50, 113, 111, 194, 225, 13>>>>,
      <<217, 34,
        <<176, 157, 153, 75, 221, 98, 115, 17, 158, 33, 98, 137, 46, 160, 118, 65,
          150, 135, 237, 175, 114, 72, 195, 39, 130, 80, 178, 173, 240, 1, 246, 156>>>>,
      <<217, 35,
        <<42, 165, 43, 32, 216, 245, 246, 48, 134, 67, 54, 124, 167, 171, 20, 187,
          130, 66, 225, 115, 230, 140, 178, 100, 86, 226, 227, 30, 47, 225, 40, 117>>>>,
      <<217, 38,
        <<238, 163, 125, 221, 45, 102, 169, 45, 72, 13, 132, 101, 48, 78, 158, 122,
          194, 114, 132, 107, 0, 19, 90, 60, 63, 82, 155, 220, 7, 30, 92, 227>>>>,
      <<217, 40,
        <<115, 21, 213, 74, 180, 21, 46, 58, 125, 211, 148, 222, 151, 241, 13, 243,
          75, 136, 237, 30, 209, 41, 139, 172, 96, 85, 243, 194, 223, 190, 232, 52>>>>,
      <<1, 218,
        <<165, 200, 169, 76, 98, 131, 229, 35, 156, 44, 87, 85, 30, 10, 227, 143,
          158, 189, 51, 169, 238, 233, 96, 205, 228, 205, 85, 245, 4, 33, 229, 126>>>>,
      <<2, 218,
        <<192, 84, 23, 241, 241, 72, 206, 81, 184, 40, 46, 37, 168, 30, 95, 97,
          234, 6, 142, 37, 219, 184, 127, 122, 156, 80, 174, 151, 11, 106, 196, 226>>>>,
      <<3, 218,
        <<194, 91, 240, 59, 250, 245, 30, 228, 227, 12, 229, 167, 162, 156, 7, 103,
          20, 101, 71, 193, 98, 245, 51, 177, 91, 109, 106, 59, 107, 212, 211, 135>>>>,
      <<33, 218,
        <<132, 245, 192, 4, 194, 113, 253, 239, 100, 208, 35, 196, 244, 112, 10, 30,
          115, 32, 148, 133, 67, 73, 173, 27, 110, 0, 62, 156, 85, 150, 86, 142>>>>,
      <<34, 218,
        <<137, 2, 193, 43, 114, 190, 70, 109, 81, 160, 112, 253, 82, 186, 76, 15,
          11, 195, 192, 92, 64, 145, 178, 228, 79, 29, 41, 125, 226, 90, 63, 230>>>>,
      <<35, 218,
        <<238, 82, 117, 214, 27, 34, 239, 130, 197, 211, 15, 251, 134, 8, 5, 181,
          135, 180, 219, 149, 113, 127, 24, 5, 47, 180, 242, 203, 47, 84, 165, 21>>>>,
      <<36, 218,
        <<217, 155, 82, 22, 60, 66, 119, 101, 65, 50, 126, 46, 55, 69, 132, 215,
          254, 130, 119, 12, 202, 105, 164, 112, 137, 134, 164, 183, 187, 53, 168, 65>>>>,
      <<38, 218,
        <<136, 212, 136, 108, 228, 186, 216, 245, 177, 90, 110, 90, 66, 158, 98, 76,
          207, 95, 187, 153, 22, 5, 195, 254, 2, 139, 255, 51, 73, 149, 100, 105>>>>,
      <<42, 218,
        <<151, 139, 147, 16, 222, 251, 161, 81, 61, 162, 59, 58, 162, 180, 76, 250,
          236, 102, 167, 140, 198, 4, 98, 112, 84, 76, 114, 21, 43, 9, 150, 21>>>>,
      <<218, 1,
        <<131, 242, 26, 99, 32, 198, 20, 206, 20, 180, 52, 159, 44, 193, 200, 106,
          139, 158, 184, 175, 241, 131, 61, 30, 11, 178, 237, 139, 45, 42, 221, 87>>>>,
      <<218, 2,
        <<4, 12, 214, 185, 129, 21, 223, 249, 173, 77, 130, 28, 140, 155, 52, 231,
          185, 110, 4, 24, 34, 189, 98, 146, 240, 143, 250, 103, 87, 162, 14, 203>>>>,
      <<218, 3,
        <<0, 48, 188, 250, 78, 251, 239, 159, 26, 228, 229, 196, 26, 7, 118, 32,
          246, 98, 98, 170, 153, 180, 114, 71, 152, 89, 70, 149, 94, 1, 233, 85>>>>,
      <<218, 4,
        <<36, 8, 157, 233, 137, 84, 44, 251, 85, 172, 84, 87, 215, 135, 255, 215,
          35, 226, 188, 64, 81, 114, 70, 230, 92, 143, 237, 179, 204, 124, 18, 95>>>>,
      <<218, 5,
        <<226, 42, 107, 74, 91, 124, 73, 127, 0, 5, 89, 94, 117, 68, 155, 172,
          80, 71, 128, 8, 37, 25, 26, 207, 28, 144, 54, 159, 144, 4, 198, 38>>>>,
      <<218, 6,
        <<209, 189, 192, 218, 254, 184, 156, 20, 132, 146, 68, 97, 106, 20, 45, 134,
          129, 4, 223, 231, 212, 168, 141, 21, 125, 89, 106, 43, 146, 243, 177, 179>>>>,
      <<218, 7,
        <<101, 102, 133, 107, 183, 171, 131, 30, 79, 134, 175, 23, 220, 209, 65, 115,
          199, 3, 137, 5, 4, 166, 229, 50, 56, 60, 206, 60, 7, 97, 35, 29>>>>,
      <<218, 8,
        <<96, 250, 0, 141, 2, 22, 249, 46, 92, 129, 167, 76, 53, 40, 1, 68,
          83, 117, 136, 2, 2, 227, 65, 32, 170, 251, 103, 244, 109, 71, 88, 179>>>>,
      <<218, 9,
        <<54, 206, 152, 9, 45, 109, 14, 222, 155, 143, 71, 196, 221, 249, 186, 240,
          57, 81, 160, 76, 180, 93, 84, 6, 189, 140, 50, 37, 193, 249, 233, 178>>>>,
      <<218, 33,
        <<142, 95, 231, 59, 110, 249, 103, 21, 101, 124, 18, 100, 20, 89, 115, 116,
          190, 70, 206, 226, 99, 24, 150, 9, 94, 29, 24, 226, 153, 249, 233, 162>>>>,
      <<218, 34,
        <<142, 143, 6, 178, 54, 30, 165, 139, 46, 119, 117, 144, 101, 149, 109, 81,
          82, 252, 16, 116, 41, 107, 178, 190, 248, 250, 248, 85, 30, 104, 189, 158>>>>,
      <<218, 35,
        <<129, 71, 196, 234, 251, 18, 135, 21, 74, 166, 44, 145, 22, 249, 218, 168,
          188, 145, 14, 255, 152, 24, 239, 145, 206, 5, 174, 18, 204, 161, 29, 46>>>>,
      <<218, 36,
        <<193, 139, 4, 163, 164, 167, 177, 22, 191, 255, 159, 171, 120, 122, 0, 129,
          110, 171, 224, 255, 166, 151, 182, 51, 50, 46, 61, 24, 210, 15, 75, 80>>>>,
      <<218, 39,
        <<53, 5, 195, 181, 104, 136, 59, 87, 177, 27, 126, 180, 116, 122, 98, 182,
          97, 226, 202, 201, 255, 244, 172, 10, 51, 190, 220, 24, 20, 148, 26, 126>>>>,
      <<218, 41,
        <<223, 129, 74, 138, 124, 213, 195, 48, 18, 255, 90, 12, 153, 101, 233, 181,
          47, 68, 37, 29, 178, 48, 236, 104, 77, 102, 96, 99, 20, 26, 112, 183>>>>,
      <<218, 43,
        <<202, 92, 130, 149, 151, 12, 1, 5, 82, 36, 220, 154, 38, 38, 169, 169,
          52, 114, 151, 87, 48, 128, 209, 5, 124, 134, 120, 167, 183, 152, 150, 161>>>>,
      <<218, 46,
        <<107, 107, 100, 245, 14, 174, 224, 159, 227, 67, 187, 244, 71, 240, 38, 129,
          0, 225, 112, 137, 10, 130, 11, 110, 179, 230, 96, 171, 243, 75, 165, 191>>>>,
      <<218, 64,
        <<52, 52, 111, 11, 210, 126, 196, 5, 30, 224, 151, 98, 22, 176, 57, 245,
          133, 129, 49, 205, 47, 63, 81, 98, 40, 5, 105, 224, 33, 86, 238, 82>>>>,
      <<218, 90,
        <<224, 230, 181, 197, 38, 82, 95, 137, 70, 12, 42, 131, 116, 20, 132, 225,
          135, 62, 118, 254, 214, 224, 84, 166, 243, 74, 160, 186, 36, 111, 171, 97>>>>,
      <<218, 108,
        <<95, 249, 203, 96, 45, 5, 31, 157, 135, 164, 16, 86, 201, 199, 196, 132,
          136, 41, 248, 190, 105, 184, 156, 125, 133, 164, 255, 136, 110, 229, 207, 131>>>>,
      <<1, 219,
        <<18, 189, 45, 213, 178, 230, 222, 247, 228, 153, 154, 1, 216, 36, 160, 51,
          212, 139, 173, 153, 198, 76, 138, 124, 21, 143, 200, 140, 184, 162, 251, 151>>>>,
      <<2, 219,
        <<25, 180, 61, 164, 201, 156, 199, 97, 105, 183, 233, 127, 146, 207, 112, 66,
          225, 185, 93, 162, 129, 205, 229, 134, 143, 151, 39, 237, 251, 183, 235, 35>>>>,
      <<3, 219,
        <<212, 255, 75, 13, 228, 4, 205, 143, 48, 235, 17, 57, 217, 107, 172, 33,
          210, 111, 236, 199, 164, 97, 194, 198, 65, 81, 42, 61, 197, 7, 2, 252>>>>,
      <<33, 219,
        <<98, 3, 141, 121, 101, 163, 177, 3, 130, 0, 101, 5, 67, 61, 214, 164,
          198, 64, 48, 68, 155, 77, 150, 131, 30, 16, 55, 22, 39, 39, 218, 133>>>>,
      <<34, 219,
        <<210, 108, 243, 33, 183, 75, 92, 235, 85, 11, 99, 254, 195, 31, 101, 31,
          42, 223, 30, 63, 216, 31, 52, 178, 161, 170, 126, 214, 248, 10, 174, 237>>>>,
      <<35, 219,
        <<196, 130, 33, 88, 72, 240, 30, 13, 64, 216, 192, 50, 77, 219, 83, 196,
          106, 9, 50, 197, 208, 240, 98, 49, 175, 102, 19, 123, 149, 42, 253, 206>>>>,
      <<36, 219,
        <<195, 217, 161, 237, 87, 45, 195, 165, 173, 84, 51, 223, 202, 199, 87, 246,
          171, 206, 3, 164, 91, 84, 201, 252, 204, 220, 32, 108, 113, 42, 70, 128>>>>,
      <<39, 219,
        <<113, 237, 203, 162, 132, 64, 215, 248, 144, 254, 88, 212, 38, 138, 66, 146,
          109, 218, 53, 107, 234, 19, 49, 217, 193, 11, 240, 50, 163, 17, 5, 49>>>>,
      <<40, 219,
        <<180, 75, 228, 138, 189, 104, 10, 129, 87, 132, 140, 210, 93, 66, 176, 110,
          179, 115, 84, 85, 24, 255, 111, 73, 92, 234, 193, 60, 75, 177, 63, 69>>>>,
      <<43, 219,
        <<75, 237, 7, 55, 13, 201, 183, 116, 91, 202, 175, 160, 211, 8, 0, 126,
          245, 246, 54, 208, 170, 33, 37, 177, 89, 193, 34, 158, 227, 164, 31, 228>>>>,
      <<1, 220,
        <<108, 167, 77, 222, 122, 229, 180, 201, 162, 197, 49, 49, 104, 54, 69, 6,
          241, 181, 139, 176, 26, 11, 76, 154, 31, 248, 39, 42, 253, 85, 105, 72>>>>,
      <<2, 220,
        <<204, 63, 83, 43, 254, 80, 212, 124, 99, 157, 219, 150, 58, 218, 48, 248,
          166, 162, 241, 255, 134, 156, 98, 207, 199, 194, 177, 149, 99, 36, 83, 213>>>>,
      <<3, 220,
        <<179, 106, 139, 122, 169, 7, 16, 143, 91, 98, 178, 138, 92, 78, 251, 199,
          216, 250, 33, 155, 239, 116, 129, 132, 250, 108, 49, 183, 197, 132, 164, 87>>>>,
      <<4, 220,
        <<139, 198, 211, 215, 164, 180, 93, 221, 231, 5, 175, 47, 48, 125, 228, 27,
          84, 107, 237, 175, 5, 125, 79, 202, 172, 230, 75, 89, 105, 137, 211, 213>>>>,
      <<33, 220,
        <<127, 118, 107, 33, 221, 97, 18, 165, 90, 193, 131, 255, 227, 144, 178, 31,
          98, 175, 198, 83, 156, 76, 207, 189, 175, 169, 97, 84, 223, 82, 242, 32>>>>,
      <<34, 220,
        <<174, 58, 246, 118, 115, 66, 94, 29, 188, 19, 161, 164, 185, 242, 17, 237,
          253, 158, 27, 180, 169, 223, 63, 123, 10, 101, 74, 118, 72, 229, 37, 158>>>>,
      <<36, 220,
        <<86, 124, 104, 251, 90, 0, 242, 251, 143, 42, 165, 145, 241, 35, 145, 221,
          4, 242, 111, 181, 218, 5, 213, 112, 72, 96, 18, 179, 109, 173, 228, 54>>>>,
      <<46, 220,
        <<127, 166, 29, 47, 238, 210, 241, 42, 186, 202, 144, 224, 138, 20, 148, 19,
          234, 50, 124, 168, 116, 56, 124, 71, 210, 220, 148, 230, 26, 84, 57, 6>>>>,
      <<1, 221,
        <<181, 164, 225, 125, 242, 139, 192, 126, 33, 73, 178, 123, 80, 21, 126, 19,
          160, 85, 1, 201, 109, 135, 45, 62, 127, 72, 238, 228, 158, 89, 149, 119>>>>,
      <<2, 221,
        <<146, 254, 109, 101, 155, 241, 81, 80, 92, 123, 233, 24, 106, 85, 56, 102,
          223, 197, 84, 130, 134, 36, 52, 6, 24, 47, 205, 207, 165, 8, 87, 37>>>>,
      <<33, 221,
        <<243, 112, 18, 131, 61, 164, 142, 238, 236, 39, 237, 244, 211, 68, 14, 191,
          117, 177, 154, 173, 41, 20, 40, 64, 38, 235, 30, 70, 81, 238, 30, 40>>>>,
      <<34, 221,
        <<3, 93, 96, 56, 58, 82, 10, 25, 145, 226, 95, 203, 45, 64, 2, 178,
          107, 214, 147, 109, 166, 48, 82, 180, 98, 213, 143, 19, 60, 197, 106, 186>>>>,
      <<35, 221,
        <<64, 108, 109, 21, 142, 106, 114, 223, 111, 80, 128, 128, 2, 197, 182, 123,
          166, 42, 10, 60, 170, 108, 82, 41, 231, 235, 213, 224, 8, 246, 128, 87>>>>,
      <<36, 221,
        <<26, 79, 18, 114, 33, 52, 138, 8, 220, 91, 233, 210, 111, 194, 154, 224,
          115, 243, 232, 21, 39, 218, 100, 29, 39, 13, 205, 68, 240, 26, 37, 239>>>>,
      <<221, 35,
        <<5, 128, 97, 34, 31, 52, 193, 154, 220, 215, 172, 77, 29, 240, 70, 70,
          88, 182, 182, 146, 20, 178, 157, 191, 93, 215, 170, 136, 14, 249, 49, 225>>>>,
      <<221, 38,
        <<225, 174, 155, 61, 218, 193, 162, 32, 158, 32, 72, 53, 186, 200, 184, 59,
          117, 66, 217, 160, 96, 53, 121, 34, 14, 70, 145, 238, 220, 188, 149, 162>>>>,
      <<221, 40,
        <<152, 128, 232, 32, 101, 109, 211, 50, 147, 50, 0, 25, 93, 108, 60, 213,
          181, 233, 209, 190, 76, 204, 141, 193, 205, 92, 115, 205, 60, 133, 190, 34>>>>,
      <<1, 222,
        <<129, 192, 232, 70, 218, 234, 183, 135, 216, 21, 122, 188, 186, 115, 249, 245,
          161, 199, 78, 58, 212, 164, 240, 246, 140, 115, 204, 120, 16, 136, 10, 138>>>>,
      <<2, 222,
        <<103, 241, 209, 6, 29, 247, 146, 139, 223, 68, 85, 251, 161, 94, 17, 219,
          208, 27, 95, 184, 119, 205, 253, 237, 147, 83, 22, 224, 193, 94, 137, 140>>>>,
      <<3, 222,
        <<228, 36, 193, 170, 69, 37, 13, 41, 144, 253, 80, 108, 175, 206, 29, 206,
          1, 139, 151, 156, 238, 138, 217, 112, 118, 215, 70, 228, 78, 206, 216, 39>>>>,
      <<33, 222,
        <<244, 126, 220, 136, 171, 99, 178, 255, 22, 201, 175, 59, 199, 88, 193, 9,
          190, 2, 128, 238, 97, 198, 122, 47, 170, 119, 198, 84, 28, 182, 15, 118>>>>,
      <<34, 222,
        <<204, 17, 1, 241, 72, 179, 180, 14, 142, 142, 115, 123, 27, 246, 166, 248,
          163, 64, 94, 229, 219, 184, 59, 233, 15, 16, 88, 207, 154, 100, 68, 209>>>>,
      <<35, 222,
        <<215, 203, 60, 82, 130, 186, 153, 174, 209, 32, 53, 215, 154, 254, 150, 188,
          248, 94, 43, 202, 120, 115, 63, 163, 153, 144, 196, 215, 53, 113, 66, 181>>>>,
      <<37, 222,
        <<141, 230, 109, 225, 159, 162, 3, 187, 31, 25, 82, 141, 181, 160, 239, 10,
          105, 220, 226, 187, 190, 208, 222, 204, 131, 22, 3, 224, 111, 222, 94, 41>>>>,
      <<40, 222,
        <<203, 224, 248, 156, 32, 133, 8, 106, 185, 234, 100, 37, 183, 113, 77, 51,
          250, 235, 243, 148, 82, 44, 177, 231, 138, 234, 56, 234, 61, 130, 128, 15>>>>,
      <<1, 226,
        <<134, 25, 190, 201, 26, 30, 26, 88, 95, 101, 248, 55, 195, 205, 120, 63,
          44, 80, 167, 81, 146, 40, 93, 19, 149, 235, 166, 43, 67, 149, 59, 155>>>>,
      <<2, 226,
        <<61, 123, 236, 118, 139, 69, 37, 24, 79, 115, 120, 121, 81, 22, 103, 53,
          118, 176, 61, 111, 86, 236, 47, 131, 184, 12, 167, 254, 112, 66, 178, 104>>>>,
      <<33, 226,
        <<18, 223, 40, 206, 201, 185, 148, 49, 245, 60, 13, 6, 45, 148, 173, 50,
          44, 230, 164, 174, 145, 41, 222, 2, 188, 122, 182, 131, 88, 61, 106, 199>>>>,
      <<34, 226,
        <<108, 77, 125, 222, 138, 64, 209, 169, 186, 158, 170, 148, 26, 188, 72, 139,
          154, 31, 24, 5, 213, 20, 204, 92, 153, 5, 11, 102, 79, 174, 155, 13>>>>,
      <<35, 226,
        <<189, 208, 224, 88, 170, 208, 196, 121, 103, 136, 164, 49, 221, 109, 133, 112,
          124, 14, 159, 146, 114, 178, 166, 225, 39, 217, 29, 253, 181, 76, 98, 176>>>>,
      <<36, 226,
        <<154, 117, 50, 130, 120, 80, 107, 68, 205, 19, 7, 148, 161, 87, 92, 0,
          47, 227, 226, 135, 99, 198, 102, 185, 190, 91, 239, 219, 209, 154, 228, 196>>>>,
      <<37, 226,
        <<236, 174, 222, 173, 233, 46, 122, 49, 164, 107, 132, 29, 78, 44, 204, 55,
          204, 117, 47, 38, 149, 182, 19, 81, 24, 4, 183, 247, 90, 176, 174, 158>>>>,
      <<226, 1,
        <<27, 146, 16, 55, 250, 228, 156, 150, 192, 156, 110, 139, 209, 17, 158, 74,
          124, 224, 91, 44, 133, 205, 98, 21, 202, 48, 163, 85, 190, 65, 253, 203>>>>,
      <<226, 2,
        <<141, 23, 139, 225, 193, 183, 127, 86, 23, 196, 245, 25, 57, 99, 147, 115,
          143, 217, 221, 174, 37, 139, 255, 127, 19, 247, 55, 169, 48, 91, 58, 190>>>>,
      <<226, 3,
        <<87, 73, 243, 99, 29, 49, 109, 252, 132, 136, 224, 71, 128, 194, 125, 97,
          242, 165, 239, 127, 29, 125, 22, 102, 100, 4, 32, 235, 225, 170, 29, 46>>>>,
      <<226, 33,
        <<135, 243, 103, 61, 39, 80, 165, 148, 146, 136, 155, 241, 96, 137, 76, 194,
          8, 58, 201, 112, 43, 11, 168, 55, 40, 125, 237, 246, 96, 215, 226, 91>>>>,
      <<226, 34,
        <<79, 129, 77, 19, 239, 182, 15, 210, 67, 129, 15, 99, 0, 186, 62, 95,
          136, 237, 200, 117, 176, 223, 238, 109, 70, 102, 17, 172, 80, 251, 199, 17>>>>,
      <<226, 35,
        <<161, 198, 27, 243, 106, 105, 164, 114, 139, 50, 148, 212, 80, 81, 34, 163,
          147, 68, 158, 182, 43, 25, 111, 255, 100, 13, 163, 50, 105, 243, 242, 106>>>>,
      <<226, 38,
        <<186, 187, 204, 144, 198, 147, 15, 247, 196, 240, 16, 7, 5, 160, 168, 96,
          106, 115, 185, 69, 100, 187, 5, 135, 9, 236, 214, 217, 10, 55, 102, 152>>>>,
      <<226, 40,
        <<42, 90, 48, 155, 131, 37, 144, 249, 160, 231, 64, 196, 219, 244, 30, 210,
          211, 91, 26, 178, 3, 82, 5, 86, 148, 215, 200, 173, 139, 225, 15, 30>>>>,
      <<1, 227,
        <<227, 76, 188, 137, 117, 172, 211, 56, 238, 251, 237, 33, 154, 48, 57, 67,
          226, 155, 24, 218, 208, 5, 7, 109, 117, 34, 126, 114, 33, 244, 104, 87>>>>,
      <<2, 227,
        <<89, 99, 169, 116, 200, 109, 234, 72, 46, 124, 48, 136, 168, 58, 141, 142,
          42, 81, 219, 118, 128, 238, 58, 44, 21, 27, 35, 34, 93, 247, 198, 245>>>>,
      <<33, 227,
        <<255, 147, 112, 170, 173, 56, 197, 30, 124, 14, 75, 230, 102, 124, 49, 89,
          71, 5, 86, 135, 245, 177, 99, 198, 116, 177, 54, 187, 188, 97, 239, 245>>>>,
      <<34, 227,
        <<80, 141, 55, 194, 170, 13, 88, 20, 205, 237, 88, 154, 33, 189, 64, 89,
          231, 254, 177, 189, 30, 237, 10, 199, 86, 195, 225, 136, 145, 110, 144, 5>>>>,
      <<35, 227,
        <<223, 22, 239, 213, 230, 185, 98, 107, 171, 245, 5, 25, 62, 47, 74, 34,
          209, 26, 228, 117, 60, 217, 185, 155, 168, 243, 123, 155, 14, 171, 254, 23>>>>,
      <<36, 227,
        <<83, 88, 116, 45, 183, 1, 213, 237, 235, 111, 153, 28, 121, 180, 118, 126,
          32, 192, 43, 166, 45, 26, 80, 216, 64, 160, 140, 215, 66, 74, 132, 191>>>>,
      <<38, 227,
        <<104, 170, 109, 114, 14, 209, 134, 231, 4, 210, 26, 68, 152, 245, 236, 43,
          147, 221, 229, 249, 10, 186, 42, 159, 201, 238, 191, 194, 8, 211, 10, 153>>>>,
      <<227, 1,
        <<193, 207, 34, 241, 3, 111, 180, 206, 14, 202, 26, 102, 238, 102, 110, 148,
          32, 79, 245, 253, 149, 186, 38, 187, 159, 205, 184, 160, 29, 189, 176, 149>>>>,
      <<227, 2,
        <<217, 29, 175, 219, 218, 200, 61, 52, 62, 188, 27, 167, 121, 166, 71, 12,
          115, 207, 151, 56, 24, 164, 65, 161, 68, 219, 12, 87, 175, 71, 211, 225>>>>,
      <<227, 33,
        <<177, 56, 174, 229, 43, 223, 92, 204, 66, 239, 92, 128, 72, 184, 26, 64,
          135, 20, 104, 200, 151, 46, 76, 96, 248, 119, 101, 66, 78, 249, 123, 38>>>>,
      <<227, 34,
        <<93, 116, 17, 178, 188, 224, 248, 184, 226, 134, 28, 182, 11, 174, 158, 114,
          135, 10, 223, 30, 48, 2, 73, 48, 54, 159, 148, 243, 155, 50, 209, 144>>>>,
      <<227, 35,
        <<152, 175, 18, 54, 65, 119, 233, 196, 204, 31, 204, 230, 110, 108, 17, 185,
          35, 87, 176, 186, 89, 91, 2, 11, 122, 105, 119, 120, 41, 220, 125, 198>>>>,
      <<227, 36,
        <<251, 82, 112, 98, 51, 226, 121, 199, 81, 126, 27, 112, 69, 199, 49, 188,
          28, 159, 248, 179, 223, 61, 72, 47, 68, 152, 218, 227, 189, 79, 253, 120>>>>,
      <<1, 228,
        <<144, 50, 214, 16, 201, 221, 163, 170, 7, 54, 1, 85, 121, 159, 211, 62,
          112, 199, 124, 116, 213, 132, 134, 222, 147, 140, 60, 125, 30, 169, 0, 142>>>>,
      <<2, 228,
        <<122, 90, 235, 234, 13, 230, 63, 60, 143, 34, 220, 34, 172, 35, 238, 37,
          193, 128, 148, 82, 193, 224, 19, 154, 28, 36, 194, 89, 35, 180, 224, 36>>>>,
      <<3, 228,
        <<1, 98, 208, 115, 172, 194, 22, 151, 242, 86, 230, 99, 15, 75, 74, 245,
          21, 75, 76, 82, 26, 34, 172, 83, 137, 17, 36, 251, 34, 182, 73, 37>>>>,
      <<33, 228,
        <<123, 25, 130, 92, 216, 116, 223, 96, 239, 40, 209, 142, 15, 231, 152, 115,
          239, 16, 166, 199, 247, 58, 86, 159, 20, 194, 167, 241, 51, 142, 217, 186>>>>,
      <<34, 228,
        <<188, 253, 44, 157, 198, 25, 103, 165, 229, 25, 252, 72, 92, 159, 148, 122,
          204, 37, 116, 213, 68, 118, 200, 163, 180, 125, 174, 211, 153, 188, 161, 11>>>>,
      <<35, 228,
        <<144, 110, 227, 35, 84, 4, 37, 191, 17, 4, 109, 21, 165, 88, 229, 42,
          158, 242, 190, 252, 155, 194, 7, 156, 140, 98, 111, 244, 3, 71, 36, 82>>>>,
      <<40, 228,
        <<86, 232, 48, 190, 229, 217, 82, 182, 153, 101, 84, 181, 122, 243, 102, 145,
          117, 54, 44, 150, 119, 53, 45, 34, 12, 197, 57, 93, 239, 54, 242, 2>>>>,
      <<1, 232,
        <<154, 89, 215, 151, 124, 247, 59, 175, 28, 48, 148, 241, 94, 229, 246, 68,
          92, 241, 116, 36, 169, 4, 25, 152, 201, 164, 201, 230, 121, 181, 71, 108>>>>,
      <<232, 1,
        <<235, 152, 80, 244, 181, 75, 18, 36, 9, 229, 25, 53, 73, 17, 70, 77,
          70, 113, 214, 157, 254, 116, 232, 52, 15, 113, 53, 241, 106, 71, 18, 159>>>>,
      <<232, 35,
        <<200, 64, 27, 22, 82, 99, 196, 181, 211, 198, 49, 30, 141, 22, 149, 158,
          192, 179, 45, 144, 230, 173, 66, 224, 102, 141, 93, 56, 136, 179, 20, 226>>>>,
      <<232, 210,
        <<112, 65, 94, 190, 103, 204, 105, 208, 12, 95, 171, 162, 29, 29, 67, 44,
          156, 78, 152, 10, 216, 161, 139, 141, 70, 41, 85, 144, 251, 104, 188, 179>>>>,
      <<232, 217,
        <<29, 90, 142, 33, 121, 12, 23, 236, 110, 183, 26, 156, 113, 92, 247, 255,
          230, 25, 212, 94, 20, 158, 28, 238, 164, 53, 129, 133, 172, 172, 191, 138>>>>,
      <<232, 226,
        <<251, 158, 123, 88, 26, 249, 51, 8, 103, 77, 67, 224, 130, 30, 131, 13,
          113, 141, 226, 215, 57, 249, 44, 28, 50, 186, 192, 240, 7, 45, 160, 70>>>>,
      <<1, 233,
        <<196, 44, 49, 250, 78, 141, 128, 135, 167, 230, 254, 242, 147, 233, 77, 63,
          245, 10, 210, 98, 250, 230, 20, 79, 173, 102, 45, 190, 152, 105, 169, 40>>>>,
      <<2, 233,
        <<188, 94, 232, 25, 59, 44, 252, 59, 150, 57, 193, 5, 230, 201, 185, 4,
          29, 228, 140, 231, 62, 132, 116, 38, 5, 56, 8, 124, 46, 10, 213, 63>>>>,
      <<3, 233,
        <<209, 182, 107, 90, 153, 180, 88, 213, 25, 37, 117, 47, 61, 49, 148, 89,
          91, 130, 107, 45, 237, 196, 74, 74, 227, 63, 109, 75, 192, 103, 166, 126>>>>,
      <<33, 233,
        <<78, 141, 227, 250, 2, 210, 81, 83, 128, 199, 24, 33, 126, 211, 43, 199,
          246, 120, 242, 12, 124, 165, 77, 154, 77, 86, 165, 99, 100, 17, 46, 254>>>>,
      <<34, 233,
        <<248, 223, 46, 106, 47, 114, 142, 131, 152, 18, 141, 162, 215, 112, 52, 95,
          250, 217, 164, 175, 127, 245, 158, 69, 95, 130, 103, 25, 200, 184, 70, 101>>>>,
      <<35, 233,
        <<219, 10, 223, 149, 253, 153, 54, 39, 254, 74, 123, 58, 60, 77, 222, 6,
          1, 233, 211, 128, 70, 118, 25, 152, 252, 228, 205, 185, 61, 156, 82, 230>>>>,
      <<36, 233,
        <<127, 209, 59, 188, 112, 215, 30, 110, 72, 173, 238, 14, 132, 185, 85, 32,
          214, 64, 4, 92, 157, 32, 111, 82, 54, 39, 148, 87, 231, 32, 228, 147>>>>,
      <<39, 233,
        <<173, 211, 27, 233, 90, 197, 46, 27, 6, 12, 165, 158, 85, 100, 228, 158,
          247, 205, 245, 142, 155, 191, 157, 75, 199, 28, 168, 246, 71, 250, 15, 175>>>>,
      <<233, 1,
        <<60, 57, 60, 242, 67, 190, 173, 42, 70, 16, 16, 84, 83, 127, 36, 222,
          11, 56, 110, 95, 141, 145, 222, 46, 254, 170, 198, 3, 252, 171, 42, 149>>>>,
      <<233, 2,
        <<125, 149, 56, 232, 45, 46, 10, 82, 248, 175, 162, 112, 190, 25, 81, 207,
          4, 189, 29, 193, 132, 147, 42, 224, 133, 195, 47, 215, 180, 219, 4, 65>>>>,
      <<233, 3,
        <<205, 58, 205, 76, 202, 126, 199, 185, 249, 70, 225, 165, 65, 3, 207, 242,
          30, 107, 17, 164, 76, 248, 204, 18, 241, 26, 96, 234, 51, 111, 38, 84>>>>,
      <<233, 4,
        <<195, 218, 253, 206, 40, 236, 201, 98, 43, 163, 110, 227, 152, 97, 24, 107,
          25, 35, 143, 207, 72, 181, 174, 98, 87, 184, 77, 39, 169, 152, 66, 195>>>>,
      <<233, 33,
        <<27, 226, 153, 42, 36, 19, 58, 22, 200, 22, 238, 65, 57, 219, 84, 94,
          152, 106, 70, 54, 137, 177, 122, 178, 211, 211, 178, 254, 168, 198, 153, 112>>>>,
      <<233, 34,
        <<172, 168, 30, 251, 22, 104, 137, 26, 76, 203, 129, 214, 22, 159, 138, 68,
          205, 8, 104, 176, 90, 83, 124, 103, 34, 3, 236, 15, 147, 194, 38, 247>>>>,
      <<233, 35,
        <<194, 198, 104, 143, 244, 211, 189, 112, 155, 129, 211, 246, 97, 170, 40, 24,
          15, 122, 76, 217, 128, 188, 139, 159, 58, 11, 90, 5, 178, 18, 230, 168>>>>,
      <<233, 36,
        <<73, 138, 199, 12, 49, 27, 148, 92, 212, 123, 36, 110, 253, 173, 96, 94,
          71, 149, 122, 23, 226, 159, 253, 190, 240, 221, 8, 17, 142, 90, 233, 10>>>>,
      <<233, 38,
        <<10, 185, 235, 94, 71, 141, 193, 210, 30, 152, 30, 55, 231, 144, 247, 127,
          98, 159, 195, 35, 178, 8, 63, 254, 68, 63, 10, 217, 108, 33, 79, 16>>>>,
      <<233, 39,
        <<238, 223, 6, 60, 163, 6, 115, 93, 46, 190, 221, 41, 182, 165, 145, 99,
          121, 167, 80, 220, 143, 105, 90, 45, 31, 200, 87, 254, 1, 14, 231, 195>>>>,
      <<233, 40,
        <<28, 1, 128, 222, 162, 74, 121, 35, 21, 108, 128, 140, 185, 92, 126, 20,
          228, 1, 67, 46, 20, 74, 182, 121, 200, 89, 54, 136, 115, 94, 56, 192>>>>,
      <<233, 41,
        <<118, 135, 150, 104, 58, 39, 132, 18, 231, 201, 226, 9, 117, 164, 245, 167,
          180, 4, 126, 100, 26, 186, 66, 189, 41, 210, 22, 133, 60, 36, 218, 7>>>>,
      <<233, 42,
        <<149, 1, 246, 83, 168, 253, 115, 116, 242, 24, 156, 159, 20, 152, 137, 30,
          152, 105, 19, 235, 148, 167, 63, 49, 249, 121, 231, 162, 199, 230, 21, 214>>>>,
      <<233, 43,
        <<37, 238, 37, 128, 39, 134, 178, 156, 90, 22, 125, 75, 75, 146, 30, 88,
          52, 221, 82, 30, 219, 150, 77, 115, 227, 211, 104, 2, 228, 171, 17, 160>>>>,
      <<233, 46,
        <<29, 124, 44, 117, 165, 63, 235, 123, 59, 247, 106, 249, 161, 126, 82, 88,
          15, 150, 124, 114, 198, 201, 20, 93, 226, 17, 40, 81, 204, 4, 77, 162>>>>,
      <<1, 234,
        <<135, 151, 47, 136, 218, 62, 155, 195, 230, 121, 123, 98, 146, 240, 5, 134,
          59, 149, 228, 125, 86, 8, 55, 96, 166, 68, 247, 14, 91, 230, 212, 227>>>>,
      <<2, 234,
        <<201, 87, 171, 251, 172, 252, 1, 40, 65, 232, 21, 211, 60, 176, 141, 60,
          196, 10, 76, 102, 51, 132, 222, 93, 143, 89, 161, 183, 164, 67, 206, 91>>>>,
      <<3, 234,
        <<222, 87, 217, 10, 164, 203, 6, 147, 110, 230, 66, 205, 29, 149, 178, 58,
          55, 112, 11, 225, 72, 79, 90, 172, 48, 245, 230, 170, 49, 197, 68, 86>>>>,
      <<33, 234,
        <<200, 166, 226, 39, 177, 108, 77, 120, 206, 211, 202, 239, 239, 225, 177, 82,
          192, 86, 22, 192, 137, 173, 237, 161, 148, 121, 150, 59, 202, 131, 26, 231>>>>,
      <<34, 234,
        <<247, 239, 109, 103, 125, 53, 124, 49, 137, 204, 147, 40, 253, 84, 216, 172,
          212, 77, 25, 23, 33, 186, 203, 150, 141, 83, 250, 90, 139, 108, 117, 179>>>>,
      <<36, 234,
        <<114, 13, 244, 225, 173, 147, 214, 70, 254, 118, 130, 112, 254, 127, 71, 121,
          66, 169, 125, 166, 110, 156, 104, 27, 118, 9, 231, 230, 60, 42, 248, 248>>>>,
      <<37, 234,
        <<180, 127, 60, 63, 136, 16, 155, 176, 71, 62, 206, 81, 216, 91, 254, 41,
          242, 227, 112, 137, 107, 68, 110, 27, 183, 124, 62, 41, 173, 228, 195, 50>>>>,
      <<40, 234,
        <<89, 77, 47, 8, 189, 86, 26, 93, 166, 248, 166, 42, 176, 202, 78, 203,
          252, 46, 199, 45, 48, 178, 48, 47, 252, 101, 106, 134, 42, 71, 168, 48>>>>,
      <<1, 235,
        <<231, 80, 150, 36, 189, 210, 7, 108, 255, 252, 251, 187, 29, 49, 137, 46,
          7, 166, 11, 152, 5, 240, 229, 242, 168, 154, 2, 121, 247, 0, 39, 164>>>>,
      <<2, 235,
        <<70, 183, 156, 141, 101, 22, 3, 181, 40, 80, 49, 108, 154, 218, 114, 128,
          84, 237, 251, 200, 157, 231, 128, 28, 138, 76, 204, 249, 120, 49, 206, 171>>>>,
      <<3, 235,
        <<151, 251, 104, 254, 139, 131, 200, 234, 195, 40, 244, 248, 77, 130, 4, 29,
          132, 128, 20, 242, 141, 22, 178, 160, 157, 235, 43, 161, 158, 253, 147, 250>>>>,
      <<4, 235,
        <<55, 223, 136, 193, 42, 35, 53, 249, 120, 11, 61, 0, 171, 65, 40, 241,
          7, 57, 89, 47, 57, 201, 155, 47, 148, 248, 230, 81, 52, 34, 98, 254>>>>,
      <<33, 235,
        <<157, 15, 139, 98, 2, 108, 26, 162, 21, 88, 106, 214, 232, 198, 173, 95,
          136, 14, 244, 82, 175, 200, 112, 207, 153, 197, 32, 130, 96, 102, 92, 142>>>>,
      <<34, 235,
        <<27, 50, 62, 223, 191, 112, 131, 123, 197, 126, 234, 76, 248, 213, 234, 168,
          39, 100, 139, 149, 210, 30, 6, 62, 138, 99, 5, 237, 24, 195, 66, 209>>>>,
      <<36, 235,
        <<120, 44, 175, 6, 21, 56, 122, 158, 191, 229, 54, 171, 175, 86, 45, 5,
          21, 63, 100, 186, 96, 108, 104, 16, 13, 140, 213, 133, 49, 224, 243, 219>>>>,
      <<41, 235,
        <<138, 120, 38, 103, 179, 43, 191, 51, 137, 134, 15, 17, 222, 45, 116, 96,
          199, 139, 246, 217, 69, 145, 133, 154, 22, 57, 233, 212, 71, 56, 113, 87>>>>,
      <<42, 235,
        <<86, 150, 191, 136, 196, 49, 173, 234, 114, 196, 233, 254, 20, 4, 247, 125,
          17, 143, 122, 255, 90, 19, 218, 182, 102, 219, 156, 250, 27, 202, 9, 160>>>>,
      <<46, 235,
        <<208, 177, 240, 2, 90, 114, 222, 200, 112, 48, 158, 247, 148, 70, 175, 185,
          104, 57, 12, 90, 33, 225, 104, 178, 241, 162, 17, 217, 111, 4, 27, 185>>>>,
      <<1, 238,
        <<149, 149, 205, 157, 116, 75, 159, 43, 190, 18, 103, 133, 49, 203, 216, 194,
          205, 209, 84, 208, 115, 89, 199, 247, 50, 4, 207, 58, 163, 234, 185, 15>>>>,
      <<232, 238,
        <<173, 163, 61, 35, 220, 192, 183, 92, 216, 74, 228, 123, 126, 36, 110, 103,
          215, 158, 90, 137, 205, 80, 186, 216, 84, 50, 126, 27, 129, 111, 171, 136>>>>,
      <<238, 1,
        <<92, 13, 240, 246, 119, 111, 241, 68, 149, 177, 231, 129, 142, 82, 125, 223,
          54, 147, 207, 210, 73, 135, 221, 61, 24, 33, 214, 209, 154, 51, 84, 139>>>>,
      <<238, 2,
        <<160, 210, 175, 201, 100, 112, 17, 110, 105, 4, 21, 78, 121, 103, 125, 89,
          233, 158, 54, 100, 113, 35, 8, 236, 167, 34, 226, 90, 109, 107, 158, 233>>>>,
      <<238, 35,
        <<158, 139, 124, 143, 248, 240, 71, 42, 119, 18, 253, 148, 213, 167, 186, 130,
          156, 40, 139, 17, 114, 13, 243, 197, 79, 187, 80, 32, 103, 137, 4, 121>>>>,
      <<238, 36,
        <<49, 27, 154, 136, 66, 72, 21, 25, 200, 98, 39, 208, 49, 162, 120, 219,
          200, 243, 143, 225, 175, 74, 81, 147, 249, 17, 123, 123, 29, 100, 110, 245>>>>,
      <<238, 38,
        <<90, 100, 105, 239, 54, 242, 61, 65, 228, 75, 237, 162, 122, 138, 147, 33,
          26, 246, 90, 29, 156, 110, 1, 37, 45, 143, 162, 216, 190, 37, 10, 210>>>>,
      <<238, 207,
        <<162, 50, 231, 17, 83, 240, 234, 108, 164, 217, 54, 22, 28, 228, 242, 31,
          117, 204, 196, 246, 194, 4, 120, 109, 240, 61, 213, 191, 172, 189, 104, 23>>>>,
      <<238, 211,
        <<76, 44, 206, 97, 222, 204, 183, 176, 253, 108, 155, 214, 194, 6, 186, 187,
          131, 221, 69, 155, 173, 218, 34, 97, 133, 161, 191, 160, 181, 53, 189, 168>>>>,
      <<238, 214,
        <<94, 179, 164, 234, 125, 173, 193, 83, 3, 148, 111, 23, 119, 43, 38, 73,
          242, 109, 175, 217, 1, 176, 231, 52, 161, 187, 37, 67, 185, 69, 99, 52>>>>,
      <<238, 218,
        <<24, 230, 34, 52, 195, 9, 15, 139, 238, 146, 23, 238, 135, 129, 104, 217,
          190, 209, 77, 183, 11, 25, 62, 1, 21, 109, 126, 95, 209, 54, 170, 61>>>>,
      <<238, 221,
        <<14, 142, 232, 104, 9, 70, 25, 111, 15, 4, 229, 58, 3, 93, 117, 137,
          142, 16, 148, 203, 229, 25, 1, 194, 224, 140, 4, 79, 213, 91, 14, 194>>>>,
      <<238, 227,
        <<60, 167, 178, 94, 217, 13, 185, 197, 71, 13, 156, 155, 205, 92, 220, 58,
          205, 207, 162, 197, 91, 55, 71, 196, 202, 7, 71, 202, 243, 209, 102, 78>>>>,
      <<238, 233,
        <<11, 5, 32, 101, 138, 187, 162, 12, 125, 209, 90, 217, 85, 194, 1, 113,
          174, 122, 6, 174, 138, 34, 5, 74, 83, 222, 163, 52, 43, 78, 229, 229>>>>,
      <<1, 239,
        <<37, 159, 222, 244, 177, 40, 112, 231, 54, 39, 193, 23, 209, 107, 228, 133,
          150, 129, 13, 170, 80, 164, 34, 206, 127, 6, 149, 8, 224, 119, 239, 35>>>>,
      <<2, 239,
        <<186, 6, 121, 185, 150, 123, 96, 11, 179, 76, 207, 35, 101, 237, 79, 23,
          116, 252, 149, 114, 83, 138, 103, 80, 85, 90, 122, 175, 212, 130, 164, 56>>>>,
      <<3, 239,
        <<68, 138, 248, 82, 224, 162, 105, 224, 180, 232, 106, 135, 12, 219, 29, 188,
          145, 14, 74, 62, 218, 79, 125, 141, 169, 173, 168, 158, 247, 249, 183, 90>>>>,
      <<33, 239,
        <<8, 222, 255, 146, 117, 108, 43, 77, 208, 30, 113, 152, 81, 99, 133, 84,
          126, 100, 87, 6, 219, 189, 177, 220, 6, 25, 240, 163, 89, 145, 127, 200>>>>,
      <<34, 239,
        <<110, 234, 130, 166, 165, 42, 242, 112, 91, 90, 191, 19, 87, 245, 188, 188,
          183, 212, 215, 47, 218, 34, 45, 159, 153, 85, 113, 12, 150, 135, 228, 127>>>>,
      <<35, 239,
        <<115, 205, 33, 253, 141, 181, 207, 62, 33, 146, 219, 3, 62, 92, 130, 55,
          25, 187, 119, 65, 89, 80, 62, 252, 19, 37, 162, 63, 109, 144, 229, 131>>>>,
      <<36, 239,
        <<160, 152, 17, 151, 63, 225, 99, 137, 128, 186, 57, 80, 157, 75, 0, 82,
          222, 145, 215, 23, 152, 77, 129, 182, 118, 163, 143, 105, 161, 205, 50, 30>>>>,
      <<37, 239,
        <<33, 4, 30, 125, 42, 221, 40, 178, 142, 83, 8, 27, 192, 237, 245, 35,
          22, 77, 250, 130, 218, 25, 255, 197, 171, 196, 32, 241, 172, 173, 48, 85>>>>,
      <<41, 239,
        <<179, 181, 136, 214, 102, 238, 186, 43, 201, 150, 101, 177, 9, 102, 235, 249,
          255, 245, 63, 0, 250, 175, 211, 56, 21, 45, 244, 177, 48, 239, 70, 198>>>>,
      <<239, 36,
        <<9, 85, 198, 241, 51, 11, 125, 174, 39, 210, 218, 50, 175, 66, 209, 102,
          137, 107, 18, 151, 39, 236, 35, 234, 203, 234, 167, 146, 247, 30, 144, 144>>>>,
      <<1, 240,
        <<25, 229, 49, 141, 237, 223, 113, 192, 61, 99, 213, 226, 163, 219, 65, 5,
          88, 197, 159, 131, 223, 223, 154, 116, 92, 139, 11, 87, 170, 36, 9, 18>>>>,
      <<2, 240,
        <<109, 9, 39, 51, 106, 174, 237, 51, 235, 197, 60, 203, 143, 138, 26, 14,
          176, 216, 219, 187, 16, 7, 81, 138, 60, 190, 86, 232, 10, 115, 96, 116>>>>,
      <<3, 240,
        <<175, 153, 224, 64, 17, 170, 84, 96, 4, 196, 101, 37, 249, 78, 228, 16,
          7, 135, 164, 139, 231, 50, 107, 159, 145, 94, 150, 60, 215, 85, 65, 121>>>>,
      <<33, 240,
        <<76, 12, 98, 151, 188, 206, 175, 191, 0, 75, 38, 112, 37, 215, 179, 92,
          97, 237, 23, 102, 151, 149, 150, 175, 176, 174, 211, 102, 46, 86, 43, 100>>>>,
      <<34, 240,
        <<199, 83, 205, 100, 221, 141, 156, 214, 251, 33, 133, 13, 0, 126, 239, 181,
          51, 13, 244, 144, 45, 159, 169, 177, 51, 26, 225, 191, 39, 6, 220, 163>>>>,
      <<35, 240,
        <<108, 224, 212, 213, 77, 61, 236, 59, 142, 229, 144, 234, 65, 2, 48, 134,
          212, 226, 234, 153, 180, 57, 63, 26, 94, 254, 8, 232, 247, 43, 201, 239>>>>,
      <<36, 240,
        <<221, 239, 245, 157, 205, 73, 5, 180, 192, 132, 111, 231, 178, 139, 242, 122,
          45, 87, 72, 130, 247, 209, 202, 60, 144, 23, 103, 186, 86, 194, 148, 121>>>>,
      <<38, 240,
        <<185, 169, 180, 107, 134, 183, 35, 13, 172, 102, 46, 220, 173, 173, 127, 114,
          118, 252, 253, 41, 89, 32, 149, 172, 164, 227, 205, 12, 162, 18, 96, 178>>>>,
      <<42, 240,
        <<199, 183, 1, 120, 37, 147, 191, 154, 210, 146, 168, 247, 90, 223, 65, 167,
          69, 75, 60, 91, 84, 181, 61, 92, 51, 167, 107, 200, 254, 177, 192, 90>>>>,
      <<238, 240,
        <<40, 15, 153, 165, 200, 7, 112, 83, 101, 148, 56, 207, 225, 79, 92, 37,
          218, 53, 61, 3, 237, 171, 76, 131, 19, 56, 168, 201, 39, 137, 134, 185>>>>,
      <<240, 1,
        <<98, 192, 120, 70, 66, 95, 105, 85, 143, 167, 200, 6, 195, 153, 210, 197,
          70, 29, 206, 91, 77, 179, 232, 248, 81, 227, 54, 118, 13, 120, 102, 209>>>>,
      <<240, 2,
        <<62, 226, 210, 182, 31, 73, 152, 73, 50, 51, 74, 93, 204, 16, 25, 118,
          29, 218, 33, 156, 127, 166, 48, 240, 31, 46, 66, 112, 227, 62, 190, 28>>>>,
      <<240, 3,
        <<169, 202, 88, 101, 160, 198, 143, 137, 183, 39, 20, 247, 9, 124, 204, 77,
          178, 157, 49, 74, 79, 46, 144, 238, 182, 154, 76, 106, 196, 227, 224, 157>>>>,
      <<240, 4,
        <<243, 114, 2, 72, 170, 160, 144, 140, 204, 251, 53, 228, 85, 13, 77, 97,
          6, 212, 70, 29, 4, 176, 175, 2, 112, 115, 36, 140, 9, 209, 242, 127>>>>,
      <<240, 5,
        <<57, 29, 67, 85, 187, 28, 66, 255, 113, 233, 142, 111, 133, 213, 29, 216,
          136, 73, 67, 83, 160, 89, 91, 155, 211, 250, 1, 64, 188, 104, 168, 95>>>>,
      <<240, 6,
        <<29, 47, 109, 88, 37, 3, 32, 151, 145, 86, 167, 96, 181, 75, 4, 233,
          247, 141, 6, 205, 195, 141, 235, 160, 70, 147, 244, 175, 174, 240, 224, 202>>>>,
      <<240, 7,
        <<170, 205, 91, 6, 65, 51, 197, 18, 132, 167, 57, 253, 127, 171, 180, 117,
          40, 223, 155, 241, 60, 150, 177, 163, 45, 230, 107, 182, 43, 192, 57, 29>>>>,
      <<240, 8,
        <<179, 45, 3, 143, 232, 102, 101, 174, 134, 144, 172, 66, 15, 252, 198, 41,
          237, 125, 174, 107, 111, 194, 87, 227, 190, 204, 141, 185, 124, 83, 32, 227>>>>,
      <<240, 9,
        <<6, 37, 42, 18, 44, 2, 172, 24, 143, 203, 248, 133, 80, 87, 213, 107,
          9, 122, 25, 48, 172, 108, 103, 10, 193, 203, 151, 201, 155, 39, 60, 1>>>>,
      <<240, 33,
        <<55, 203, 3, 57, 209, 174, 98, 116, 10, 168, 202, 243, 176, 150, 68, 197,
          73, 109, 254, 238, 81, 174, 10, 218, 239, 6, 42, 146, 197, 71, 142, 10>>>>,
      <<240, 34,
        <<108, 39, 11, 121, 153, 93, 6, 153, 199, 159, 64, 57, 89, 112, 51, 180,
          49, 5, 133, 126, 70, 240, 129, 158, 26, 38, 191, 20, 117, 226, 138, 21>>>>,
      <<240, 35,
        <<37, 98, 17, 69, 136, 120, 229, 105, 140, 177, 6, 196, 78, 117, 213, 50,
          41, 136, 59, 25, 112, 220, 67, 183, 95, 119, 29, 121, 199, 144, 98, 44>>>>,
      <<240, 36,
        <<135, 247, 118, 134, 138, 30, 56, 219, 116, 45, 156, 169, 189, 65, 177, 167,
          211, 68, 217, 178, 6, 184, 61, 254, 204, 135, 93, 221, 182, 81, 71, 62>>>>,
      <<240, 38,
        <<98, 183, 118, 234, 72, 110, 82, 142, 85, 49, 0, 204, 66, 195, 127, 248,
          194, 227, 79, 90, 16, 104, 7, 72, 59, 245, 7, 74, 63, 88, 120, 139>>>>,
      <<240, 39,
        <<227, 70, 188, 201, 127, 108, 58, 101, 107, 99, 224, 31, 149, 134, 149, 90,
          246, 170, 81, 17, 63, 71, 68, 163, 137, 35, 139, 247, 229, 64, 244, 94>>>>,
      <<240, 40,
        <<69, 14, 7, 111, 225, 184, 123, 117, 204, 10, 144, 123, 136, 106, 223, 228,
          220, 249, 113, 136, 92, 65, 112, 12, 27, 133, 79, 237, 12, 39, 190, 26>>>>,
      <<240, 41,
        <<109, 17, 34, 99, 245, 49, 21, 144, 241, 156, 24, 225, 109, 201, 9, 72,
          149, 171, 147, 168, 79, 69, 222, 247, 187, 185, 229, 130, 87, 128, 250, 252>>>>,
      <<240, 42,
        <<4, 210, 176, 63, 80, 190, 77, 14, 142, 111, 97, 189, 128, 120, 106, 147,
          144, 97, 138, 245, 255, 105, 76, 26, 235, 28, 74, 0, 44, 133, 48, 184>>>>,
      <<240, 43,
        <<112, 165, 251, 97, 84, 2, 165, 73, 244, 104, 169, 123, 94, 215, 238, 62,
          151, 111, 86, 186, 88, 204, 172, 224, 74, 80, 53, 13, 57, 8, 253, 230>>>>,
      <<240, 46,
        <<166, 131, 140, 23, 143, 38, 32, 58, 15, 73, 155, 86, 101, 68, 92, 170,
          7, 21, 7, 241, 112, 161, 96, 61, 243, 224, 244, 146, 4, 67, 34, 53>>>>,
      <<240, 64,
        <<69, 11, 113, 180, 219, 130, 251, 119, 13, 110, 113, 142, 236, 192, 60, 156,
          196, 157, 68, 250, 251, 18, 196, 217, 104, 153, 101, 116, 201, 94, 93, 21>>>>,
      <<240, 90,
        <<118, 155, 38, 45, 40, 36, 75, 94, 11, 108, 37, 99, 231, 130, 52, 16,
          6, 191, 116, 225, 105, 91, 188, 143, 245, 140, 131, 189, 91, 36, 30, 239>>>>,
      <<240, 108,
        <<185, 75, 163, 64, 131, 226, 72, 92, 140, 17, 224, 179, 158, 128, 87, 33,
          73, 140, 113, 9, 52, 105, 185, 54, 212, 3, 239, 70, 152, 10, 194, 57>>>>,
      <<1, 241,
        <<96, 26, 34, 66, 231, 239, 35, 216, 248, 61, 159, 144, 220, 67, 185, 50,
          27, 150, 20, 130, 178, 101, 221, 141, 237, 144, 173, 253, 147, 128, 161, 48>>>>,
      <<2, 241,
        <<116, 29, 195, 125, 159, 134, 252, 74, 145, 207, 42, 61, 217, 116, 243, 92,
          201, 241, 222, 44, 135, 54, 54, 251, 231, 140, 222, 60, 109, 54, 69, 156>>>>,
      <<3, 241,
        <<130, 186, 243, 120, 219, 33, 105, 189, 183, 162, 206, 231, 93, 70, 117, 198,
          220, 50, 53, 139, 87, 57, 28, 76, 76, 64, 191, 39, 239, 106, 192, 137>>>>,
      <<33, 241,
        <<70, 45, 181, 199, 123, 125, 117, 160, 66, 192, 37, 252, 29, 63, 118, 117,
          202, 104, 203, 226, 111, 99, 198, 198, 66, 153, 53, 111, 133, 84, 3, 244>>>>,
      <<34, 241,
        <<234, 82, 50, 68, 133, 232, 233, 201, 25, 63, 7, 57, 118, 187, 158, 242,
          129, 122, 166, 29, 202, 167, 133, 178, 202, 46, 104, 37, 140, 240, 173, 81>>>>,
      <<36, 241,
        <<112, 104, 192, 111, 63, 199, 120, 150, 26, 111, 50, 63, 89, 82, 53, 36,
          118, 86, 166, 197, 56, 227, 193, 222, 111, 213, 64, 220, 150, 49, 249, 115>>>>,
      <<39, 241,
        <<13, 92, 125, 188, 93, 122, 29, 111, 57, 194, 124, 193, 30, 217, 172, 52,
          151, 172, 23, 11, 160, 127, 165, 50, 47, 117, 0, 134, 246, 75, 225, 145>>>>,
      <<40, 241,
        <<223, 255, 168, 168, 165, 118, 162, 179, 24, 163, 40, 142, 202, 156, 177, 7,
          182, 97, 75, 70, 33, 45, 52, 62, 202, 115, 102, 161, 5, 215, 55, 63>>>>,
      <<43, 241,
        <<18, 37, 166, 255, 57, 48, 89, 240, 65, 140, 121, 125, 10, 21, 113, 117,
          77, 116, 35, 242, 34, 117, 27, 128, 7, 16, 91, 38, 171, 227, 200, 215>>>>,
      <<1, 242,
        <<220, 210, 162, 94, 10, 250, 148, 59, 99, 179, 117, 149, 46, 252, 108, 182,
          5, 88, 90, 97, 230, 139, 49, 63, 226, 195, 240, 83, 143, 209, 174, 163>>>>,
      <<2, 242,
        <<2, 131, 35, 54, 140, 81, 19, 79, 60, 140, 102, 61, 0, 237, 199, 199,
          100, 208, 61, 1, 117, 1, 59, 73, 41, 62, 180, 170, 183, 208, 30, 87>>>>,
      <<3, 242,
        <<204, 181, 114, 139, 34, 143, 101, 211, 199, 165, 68, 199, 39, 226, 188, 29,
          17, 113, 192, 45, 120, 230, 203, 248, 3, 156, 238, 174, 75, 190, 16, 209>>>>,
      <<4, 242,
        <<100, 243, 79, 122, 116, 188, 230, 234, 253, 132, 84, 45, 189, 113, 231, 129,
          177, 94, 215, 217, 139, 217, 221, 122, 176, 76, 26, 60, 246, 69, 95, 107>>>>,
      <<33, 242,
        <<178, 75, 53, 14, 86, 71, 102, 10, 43, 45, 186, 126, 152, 201, 204, 240,
          209, 130, 234, 88, 188, 62, 35, 213, 42, 211, 200, 7, 113, 220, 46, 86>>>>,
      <<34, 242,
        <<5, 116, 220, 11, 161, 168, 77, 179, 107, 85, 213, 120, 93, 58, 165, 127,
          27, 58, 53, 114, 117, 222, 6, 250, 72, 19, 155, 192, 132, 211, 51, 181>>>>,
      <<36, 242,
        <<114, 138, 19, 182, 236, 192, 13, 114, 75, 148, 216, 118, 72, 49, 64, 168,
          184, 221, 4, 217, 64, 15, 75, 180, 182, 95, 75, 231, 95, 124, 247, 169>>>>,
      <<46, 242,
        <<48, 247, 249, 242, 56, 40, 172, 224, 11, 73, 55, 172, 46, 155, 231, 248,
          4, 65, 65, 117, 205, 124, 43, 137, 203, 77, 248, 13, 255, 217, 183, 12>>>>,
      <<1, 250,
        <<48, 29, 178, 156, 106, 176, 169, 88, 27, 235, 136, 99, 86, 163, 234, 101,
          14, 128, 119, 246, 234, 166, 66, 121, 81, 132, 127, 23, 83, 233, 69, 138>>>>,
      <<36, 250,
        <<88, 220, 130, 163, 42, 211, 107, 219, 138, 66, 37, 117, 16, 245, 92, 100,
          21, 25, 44, 112, 152, 111, 62, 146, 150, 132, 27, 85, 221, 31, 192, 14>>>>,
      <<38, 250,
        <<152, 70, 183, 99, 243, 203, 33, 44, 206, 221, 157, 61, 125, 168, 136, 26,
          87, 117, 213, 43, 95, 221, 43, 62, 227, 148, 143, 254, 195, 82, 22, 223>>>>,
      <<211, 250,
        <<89, 255, 148, 129, 20, 80, 52, 79, 172, 157, 58, 163, 106, 81, 190, 22,
          67, 209, 42, 77, 183, 197, 153, 189, 194, 148, 123, 16, 242, 179, 129, 61>>>>,
      <<218, 250,
        <<9, 183, 108, 178, 206, 217, 180, 41, 123, 53, 119, 179, 216, 87, 196, 83,
          74, 133, 108, 58, 153, 153, 92, 73, 217, 135, 251, 23, 255, 60, 92, 73>>>>,
      <<227, 250,
        <<245, 90, 67, 55, 90, 221, 123, 202, 159, 50, 50, 210, 223, 12, 125, 230,
          215, 73, 244, 203, 132, 234, 223, 143, 132, 67, 95, 183, 41, 144, 179, 80>>>>,
      <<240, 250,
        <<78, 67, 48, 245, 198, 13, 128, 251, 196, 29, 89, 210, 161, 95, 189, 145,
          219, 255, 105, 83, 145, 223, 38, 133, 251, 142, 160, 184, 68, 113, 19, 78>>>>,
      <<250, 1,
        <<251, 175, 106, 42, 70, 153, 51, 224, 8, 83, 214, 85, 207, 21, 121, 240,
          73, 230, 106, 16, 116, 88, 68, 216, 99, 30, 252, 39, 162, 59, 231, 119>>>>,
      <<250, 2,
        <<142, 44, 147, 199, 155, 127, 10, 157, 85, 148, 67, 75, 9, 79, 122, 147,
          251, 185, 23, 205, 195, 163, 13, 180, 166, 164, 6, 190, 204, 215, 142, 190>>>>,
      <<250, 35,
        <<26, 189, 37, 183, 157, 175, 254, 141, 53, 107, 179, 178, 144, 41, 200, 104,
          168, 67, 62, 130, 95, 70, 17, 160, 30, 222, 107, 18, 204, 11, 64, 147>>>>,
      <<250, 37,
        <<213, 185, 241, 174, 19, 114, 13, 102, 98, 116, 84, 66, 33, 129, 139, 53,
          210, 3, 20, 183, 69, 149, 57, 9, 148, 113, 71, 110, 112, 161, 192, 7>>>>,
      <<250, 210,
        <<229, 117, 120, 204, 102, 210, 231, 152, 110, 62, 149, 51, 116, 149, 156, 29,
          250, 193, 160, 213, 84, 52, 62, 214, 159, 222, 55, 38, 254, 104, 121, 85>>>>,
      <<250, 217,
        <<91, 15, 120, 150, 14, 177, 57, 178, 28, 87, 201, 177, 21, 232, 8, 33,
          76, 19, 92, 234, 239, 153, 6, 33, 234, 5, 235, 90, 192, 182, 153, 224>>>>,
      <<250, 226,
        <<124, 186, 97, 123, 70, 56, 224, 163, 16, 124, 231, 221, 139, 21, 164, 250,
          132, 36, 177, 169, 227, 5, 233, 139, 204, 203, 214, 76, 156, 245, 133, 27>>>>,
      <<250, 239,
        <<189, 86, 79, 208, 104, 217, 30, 189, 113, 113, 36, 205, 182, 124, 42, 24,
          225, 52, 183, 94, 196, 107, 229, 33, 193, 219, 56, 151, 92, 249, 199, 242>>>>,
      <<1, 251,
        <<119, 78, 238, 0, 219, 1, 204, 3, 204, 130, 117, 35, 29, 74, 239, 101,
          31, 159, 117, 214, 3, 112, 229, 18, 239, 204, 92, 206, 253, 48, 244, 204>>>>,
      <<251, 2,
        <<253, 249, 43, 156, 145, 252, 112, 181, 224, 219, 222, 129, 143, 251, 208, 242,
          251, 73, 219, 58, 247, 20, 227, 193, 153, 13, 135, 1, 128, 124, 9, 184>>>>,
      <<251, 35,
        <<105, 164, 10, 69, 66, 88, 197, 1, 27, 185, 67, 13, 166, 54, 221, 181,
          2, 88, 103, 66, 67, 123, 49, 182, 208, 110, 168, 38, 17, 231, 26, 230>>>>,
      <<251, 36,
        <<190, 59, 50, 61, 35, 156, 77, 159, 240, 7, 105, 167, 166, 53, 200, 55,
          109, 246, 240, 176, 233, 66, 123, 123, 54, 233, 108, 215, 11, 209, 17, 248>>>>,
      <<251, 38,
        <<253, 2, 126, 191, 92, 232, 6, 65, 39, 246, 76, 5, 179, 44, 32, 26,
          236, 203, 54, 203, 72, 49, 146, 58, 108, 137, 156, 27, 193, 165, 31, 225>>>>,
      <<251, 207,
        <<19, 90, 32, 131, 202, 14, 25, 52, 1, 203, 79, 5, 52, 224, 189, 5,
          24, 150, 172, 234, 227, 73, 55, 233, 167, 101, 112, 77, 68, 113, 127, 8>>>>,
      <<251, 211,
        <<141, 5, 228, 112, 57, 75, 178, 132, 4, 95, 105, 76, 186, 54, 151, 50,
          195, 46, 44, 112, 203, 112, 120, 0, 37, 245, 70, 230, 204, 231, 135, 39>>>>,
      <<251, 214,
        <<220, 231, 246, 168, 228, 103, 41, 130, 168, 208, 15, 133, 125, 7, 159, 72,
          131, 246, 135, 134, 222, 182, 103, 198, 167, 71, 95, 161, 202, 184, 153, 42>>>>,
      <<251, 218,
        <<97, 88, 136, 255, 157, 67, 92, 49, 3, 6, 122, 179, 184, 42, 75, 103,
          198, 202, 27, 141, 6, 6, 2, 213, 1, 126, 41, 63, 96, 99, 164, 81>>>>,
      <<251, 233,
        <<56, 184, 74, 218, 73, 174, 9, 127, 207, 16, 178, 107, 240, 82, 84, 6,
          188, 68, 115, 128, 243, 170, 125, 73, 61, 4, 183, 80, 46, 225, 30, 60>>>>,
      <<251, 240,
        <<84, 202, 44, 134, 106, 194, 174, 72, 73, 189, 55, 19, 9, 233, 71, 219,
          27, 169, 208, 198, 194, 240, 165, 53, 211, 122, 22, 217, 251, 174, 91, 100>>>>,
      <<1, 252,
        <<152, 159, 91, 88, 24, 146, 61, 253, 137, 14, 16, 46, 187, 156, 206, 85,
          59, 46, 119, 51, 99, 43, 172, 96, 159, 121, 16, 233, 29, 134, 38, 161>>>>,
      <<2, 252,
        <<225, 109, 91, 114, 63, 18, 99, 48, 239, 102, 65, 32, 241, 243, 159, 171,
          12, 2, 210, 201, 212, 115, 250, 102, 119, 243, 246, 93, 49, 14, 238, 188>>>>,
      <<3, 252,
        <<103, 204, 34, 93, 16, 193, 159, 254, 186, 83, 198, 94, 252, 71, 52, 133,
          26, 215, 174, 108, 209, 59, 74, 105, 174, 186, 186, 180, 84, 94, 152, 10>>>>,
      <<33, 252,
        <<136, 116, 225, 203, 244, 215, 49, 224, 210, 120, 101, 87, 28, 219, 112, 37,
          231, 172, 126, 38, 164, 88, 19, 101, 202, 123, 145, 64, 198, 130, 117, 181>>>>,
      <<35, 252,
        <<119, 8, 184, 8, 173, 235, 5, 140, 169, 209, 107, 9, 69, 29, 173, 227,
          196, 183, 39, 196, 160, 68, 30, 149, 225, 251, 114, 18, 248, 116, 81, 220>>>>,
      <<36, 252,
        <<113, 214, 139, 112, 88, 222, 111, 233, 189, 95, 186, 244, 185, 160, 7, 121,
          155, 91, 240, 89, 132, 134, 169, 95, 48, 45, 189, 34, 91, 60, 225, 126>>>>,
      <<37, 252,
        <<9, 112, 153, 116, 92, 48, 208, 71, 243, 162, 208, 155, 61, 153, 67, 231,
          14, 152, 140, 228, 198, 255, 163, 173, 208, 76, 215, 61, 6, 248, 35, 248>>>>,
      <<38, 252,
        <<117, 174, 243, 248, 230, 212, 243, 91, 161, 107, 125, 146, 239, 191, 230, 116,
          15, 70, 119, 30, 254, 51, 59, 191, 128, 71, 153, 130, 98, 21, 233, 193>>>>,
      <<39, 252,
        <<31, 77, 125, 98, 207, 13, 197, 101, 252, 175, 133, 239, 241, 157, 241, 102,
          110, 12, 192, 247, 118, 170, 76, 212, 77, 207, 50, 147, 12, 12, 217, 94>>>>,
      <<40, 252,
        <<29, 32, 56, 117, 134, 180, 8, 148, 128, 22, 129, 166, 175, 203, 58, 73,
          147, 132, 183, 161, 200, 250, 254, 78, 85, 26, 108, 63, 247, 173, 76, 23>>>>,
      <<42, 252,
        <<13, 26, 254, 43, 154, 119, 206, 62, 171, 241, 222, 105, 169, 162, 14, 246,
          227, 80, 223, 170, 112, 33, 27, 212, 33, 53, 105, 34, 184, 166, 100, 10>>>>,
      <<207, 252,
        <<31, 45, 15, 250, 254, 131, 147, 77, 234, 67, 184, 81, 7, 0, 107, 205,
          30, 212, 41, 56, 206, 72, 48, 41, 254, 165, 128, 6, 219, 245, 79, 198>>>>,
      <<211, 252,
        <<204, 118, 132, 8, 149, 35, 17, 103, 125, 46, 222, 52, 226, 148, 22, 25,
          30, 156, 85, 69, 246, 74, 14, 217, 30, 92, 247, 239, 100, 58, 235, 136>>>>,
      <<233, 252,
        <<132, 167, 48, 197, 234, 227, 40, 170, 96, 58, 46, 39, 158, 82, 20, 244,
          125, 159, 101, 156, 244, 188, 84, 51, 124, 97, 76, 32, 213, 152, 63, 246>>>>,
      <<240, 252,
        <<206, 252, 151, 220, 68, 15, 133, 248, 46, 113, 35, 97, 143, 90, 59, 1,
          236, 234, 144, 103, 123, 152, 30, 108, 143, 55, 152, 237, 1, 187, 221, 64>>>>,
      <<252, 1,
        <<139, 255, 251, 43, 231, 224, 94, 158, 74, 181, 172, 26, 179, 94, 146, 44,
          54, 7, 119, 247, 66, 162, 195, 190, 232, 152, 89, 14, 94, 160, 199, 96>>>>,
      <<252, 2,
        <<51, 172, 31, 54, 214, 141, 141, 144, 235, 208, 127, 242, 176, 191, 215, 186,
          197, 68, 215, 39, 186, 177, 118, 221, 139, 187, 46, 37, 106, 182, 83, 54>>>>,
      <<252, 3,
        <<38, 216, 211, 165, 221, 179, 253, 179, 99, 11, 63, 47, 238, 233, 124, 218,
          96, 4, 32, 84, 106, 35, 41, 65, 132, 241, 44, 44, 66, 0, 250, 196>>>>,
      <<252, 4,
        <<59, 214, 32, 227, 167, 235, 173, 50, 12, 186, 160, 60, 30, 153, 148, 104,
          26, 11, 65, 175, 135, 133, 237, 22, 59, 237, 81, 42, 21, 99, 150, 75>>>>,
      <<252, 33,
        <<212, 124, 146, 209, 184, 206, 48, 165, 72, 52, 100, 232, 148, 100, 172, 53,
          228, 85, 239, 229, 158, 99, 212, 2, 26, 14, 56, 109, 133, 197, 206, 116>>>>,
      <<252, 35,
        <<111, 65, 217, 13, 175, 183, 16, 151, 113, 68, 115, 178, 231, 131, 8, 82,
          174, 104, 82, 93, 153, 80, 164, 165, 5, 248, 3, 240, 46, 162, 34, 247>>>>,
      <<252, 36,
        <<244, 111, 135, 226, 19, 167, 207, 235, 252, 78, 80, 113, 49, 213, 51, 187,
          70, 86, 63, 7, 212, 109, 74, 114, 131, 205, 203, 145, 40, 89, 112, 222>>>>,
      <<252, 37,
        <<195, 123, 13, 128, 172, 119, 134, 135, 83, 148, 206, 251, 92, 207, 193, 247,
          41, 32, 160, 126, 59, 175, 201, 22, 203, 179, 122, 34, 0, 253, 38, 90>>>>,
      <<252, 38,
        <<189, 225, 173, 239, 89, 133, 157, 254, 178, 57, 228, 163, 190, 15, 144, 88,
          157, 78, 225, 31, 111, 199, 14, 182, 172, 98, 50, 155, 188, 28, 42, 87>>>>,
      <<252, 39,
        <<96, 47, 118, 223, 249, 92, 31, 42, 157, 121, 145, 4, 117, 137, 148, 224,
          212, 209, 169, 153, 194, 5, 55, 144, 82, 247, 219, 44, 211, 202, 135, 203>>>>,
      <<252, 40,
        <<54, 55, 146, 79, 110, 195, 229, 73, 113, 147, 111, 155, 80, 226, 167, 61,
          151, 26, 2, 167, 13, 205, 224, 217, 189, 86, 102, 20, 69, 75, 123, 194>>>>,
      <<252, 41,
        <<95, 94, 232, 98, 226, 99, 167, 21, 182, 138, 172, 197, 163, 161, 179, 209,
          201, 120, 88, 31, 159, 219, 153, 170, 61, 142, 134, 128, 129, 103, 244, 194>>>>,
      <<252, 42,
        <<184, 104, 80, 207, 228, 30, 1, 150, 209, 38, 253, 110, 217, 140, 89, 43,
          214, 238, 10, 26, 58, 155, 137, 151, 152, 27, 164, 188, 16, 4, 118, 145>>>>,
      <<252, 43,
        <<65, 123, 69, 187, 164, 144, 70, 126, 232, 71, 198, 235, 126, 131, 187, 220,
          255, 46, 177, 26, 95, 255, 196, 110, 142, 111, 146, 207, 113, 28, 137, 9>>>>,
      <<252, 45,
        <<64, 221, 179, 249, 204, 222, 247, 46, 184, 20, 142, 213, 38, 3, 1, 101,
          20, 234, 71, 208, 244, 45, 56, 239, 10, 186, 235, 156, 20, 239, 234, 73>>>>,
      <<252, 49,
        <<130, 161, 222, 217, 28, 74, 17, 220, 16, 254, 0, 234, 27, 172, 52, 170,
          219, 230, 20, 126, 18, 165, 2, 51, 54, 59, 127, 214, 153, 108, 59, 73>>>>,
      <<252, 207,
        <<4, 145, 244, 116, 63, 208, 167, 195, 221, 45, 239, 145, 138, 247, 22, 178,
          134, 129, 76, 48, 109, 145, 12, 164, 7, 204, 144, 222, 122, 18, 95, 61>>>>,
      <<252, 208,
        <<171, 172, 104, 217, 163, 137, 11, 244, 144, 114, 239, 124, 36, 71, 133, 254,
          240, 83, 120, 153, 252, 132, 126, 79, 123, 131, 202, 147, 39, 190, 133, 74>>>>,
      <<252, 210,
        <<195, 14, 252, 104, 209, 190, 176, 160, 130, 43, 3, 222, 254, 151, 174, 49,
          36, 62, 55, 140, 154, 184, 124, 65, 47, 218, 189, 214, 220, 161, 217, 224>>>>,
      <<252, 211,
        <<11, 15, 224, 164, 107, 217, 121, 30, 242, 194, 114, 177, 24, 206, 69, 119,
          103, 37, 220, 204, 250, 156, 19, 216, 81, 95, 42, 144, 35, 196, 203, 110>>>>,
      <<252, 212,
        <<169, 59, 80, 114, 253, 34, 223, 38, 19, 135, 118, 141, 70, 16, 122, 220,
          170, 246, 241, 89, 85, 21, 58, 126, 247, 187, 167, 175, 178, 172, 77, 202>>>>,
      <<252, 221,
        <<207, 149, 39, 202, 226, 166, 69, 119, 164, 191, 87, 81, 7, 182, 192, 247,
          2, 36, 182, 85, 121, 187, 87, 203, 207, 165, 148, 73, 128, 207, 85, 8>>>>,
      <<252, 226,
        <<77, 173, 47, 206, 187, 167, 197, 165, 53, 11, 69, 114, 251, 198, 125, 183,
          241, 104, 181, 189, 250, 170, 44, 246, 163, 232, 253, 166, 123, 16, 219, 122>>>>,
      <<252, 233,
        <<64, 18, 27, 182, 219, 180, 199, 18, 156, 223, 186, 247, 99, 129, 198, 168,
          145, 22, 57, 212, 18, 140, 248, 131, 229, 243, 164, 128, 175, 98, 154, 200>>>>,
      <<252, 240,
        <<75, 221, 81, 202, 136, 11, 20, 209, 74, 239, 85, 246, 127, 245, 73, 148,
          60, 116, 24, 253, 176, 203, 237, 32, 14, 140, 247, 204, 221, 193, 116, 31>>>>,
      <<252, 252,
        <<255, 172, 86, 194, 193, 72, 181, 31, 55, 22, 67, 16, 22, 148, 15, 247,
          12, 182, 156, 226, 31, 65, 56, 216, 102, 235, 26, 192, 140, 143, 239, 196>>>>,
      <<1, 253,
        <<145, 103, 192, 109, 37, 225, 83, 228, 172, 195, 133, 241, 41, 175, 120, 161,
          99, 25, 46, 172, 80, 70, 87, 188, 187, 105, 27, 100, 49, 221, 250, 222>>>>,
      <<2, 253,
        <<139, 230, 53, 84, 78, 110, 0, 2, 0, 120, 227, 164, 58, 224, 86, 148,
          192, 11, 254, 120, 71, 211, 116, 50, 114, 131, 42, 249, 188, 60, 215, 8>>>>,
      <<3, 253,
        <<194, 223, 79, 85, 43, 200, 11, 123, 177, 254, 129, 40, 42, 67, 111, 182,
          150, 162, 246, 165, 167, 75, 239, 194, 59, 177, 246, 215, 188, 218, 13, 126>>>>,
      <<33, 253,
        <<254, 136, 39, 127, 248, 213, 29, 227, 137, 33, 18, 109, 93, 213, 187, 207,
          191, 68, 91, 120, 172, 14, 211, 233, 71, 149, 133, 144, 102, 74, 18, 4>>>>,
      <<34, 253,
        <<214, 108, 83, 180, 237, 109, 169, 28, 6, 178, 35, 72, 197, 136, 11, 98,
          80, 52, 255, 123, 204, 119, 33, 89, 131, 220, 48, 192, 104, 8, 144, 18>>>>,
      <<35, 253,
        <<205, 222, 121, 20, 208, 194, 158, 92, 226, 93, 115, 43, 140, 249, 174, 186,
          227, 87, 212, 98, 30, 125, 70, 223, 1, 144, 154, 251, 39, 241, 8, 227>>>>,
      <<36, 253,
        <<198, 252, 242, 10, 140, 10, 172, 43, 184, 127, 48, 194, 53, 233, 206, 72,
          178, 18, 92, 80, 138, 61, 94, 158, 81, 214, 180, 76, 78, 32, 58, 58>>>>,
      <<37, 253,
        <<73, 32, 9, 55, 209, 136, 207, 34, 131, 143, 175, 18, 97, 29, 110, 163,
          109, 192, 119, 200, 184, 56, 128, 84, 171, 151, 34, 199, 84, 219, 29, 79>>>>,
      <<38, 253,
        <<74, 22, 78, 74, 67, 46, 69, 245, 230, 66, 145, 132, 218, 20, 140, 139,
          150, 197, 184, 105, 198, 59, 236, 32, 122, 133, 207, 93, 237, 141, 190, 242>>>>,
      <<39, 253,
        <<116, 23, 105, 241, 98, 172, 89, 175, 239, 33, 205, 222, 19, 145, 182, 148,
          217, 5, 170, 221, 191, 104, 134, 188, 182, 7, 141, 39, 44, 122, 2, 218>>>>,
      <<41, 253,
        <<235, 74, 100, 236, 217, 3, 230, 144, 27, 199, 102, 115, 96, 193, 67, 252,
          102, 99, 213, 63, 163, 82, 235, 166, 165, 145, 164, 191, 134, 162, 44, 231>>>>,
      <<42, 253,
        <<44, 69, 32, 140, 108, 189, 213, 180, 50, 27, 144, 5, 96, 62, 183, 167,
          134, 215, 48, 157, 5, 9, 248, 127, 36, 209, 226, 161, 140, 88, 28, 120>>>>,
      <<207, 253,
        <<151, 185, 135, 248, 104, 41, 91, 181, 44, 152, 114, 125, 225, 157, 226, 106,
          219, 10, 253, 149, 151, 134, 143, 72, 182, 166, 125, 85, 205, 225, 67, 108>>>>,
      <<210, 253,
        <<254, 50, 233, 39, 155, 190, 175, 44, 50, 181, 88, 153, 139, 112, 148, 231,
          75, 162, 76, 71, 46, 193, 44, 131, 162, 19, 15, 0, 238, 52, 197, 181>>>>,
      <<211, 253,
        <<51, 212, 65, 8, 29, 137, 113, 47, 232, 47, 204, 248, 149, 69, 77, 28,
          73, 24, 227, 67, 233, 199, 15, 38, 158, 124, 134, 34, 168, 136, 206, 128>>>>,
      <<221, 253,
        <<5, 18, 83, 138, 198, 119, 135, 120, 60, 207, 114, 82, 204, 97, 224, 61,
          227, 78, 248, 150, 182, 83, 167, 132, 208, 28, 32, 214, 78, 0, 105, 212>>>>,
      <<226, 253,
        <<38, 234, 118, 251, 78, 33, 151, 190, 217, 21, 129, 207, 157, 243, 109, 35,
          201, 60, 125, 163, 88, 93, 86, 23, 51, 103, 244, 116, 100, 97, 187, 12>>>>,
      <<233, 253,
        <<210, 137, 27, 115, 49, 17, 57, 115, 102, 200, 127, 198, 88, 106, 237, 230,
          190, 22, 252, 249, 118, 222, 52, 75, 32, 17, 4, 118, 31, 158, 92, 42>>>>,
      <<240, 253,
        <<14, 119, 63, 99, 7, 66, 53, 189, 179, 168, 16, 79, 250, 62, 67, 180,
          248, 128, 79, 187, 157, 123, 175, 230, 147, 241, 47, 155, 176, 22, 111, 207>>>>,
      <<252, 253,
        <<127, 141, 229, 15, 114, 4, 79, 68, 108, 2, 15, 194, 178, 80, 233, 163,
          34, 169, 104, 60, 102, 201, 167, 119, 213, 130, 141, 97, 92, 203, 178, 83>>>>,
      <<253, 1,
        <<228, 228, 218, 63, 140, 214, 61, 248, 57, 25, 139, 19, 62, 196, 94, 173,
          243, 27, 221, 230, 220, 204, 22, 114, 133, 157, 123, 154, 228, 167, 60, 202>>>>,
      <<253, 2,
        <<169, 14, 248, 176, 170, 219, 80, 230, 159, 9, 192, 36, 26, 91, 178, 230,
          213, 146, 196, 74, 119, 171, 2, 50, 45, 208, 44, 134, 241, 135, 201, 209>>>>,
      <<253, 35,
        <<246, 121, 52, 197, 2, 150, 86, 64, 82, 133, 224, 173, 203, 54, 149, 37,
          217, 42, 8, 180, 83, 211, 163, 80, 166, 178, 112, 221, 132, 240, 45, 140>>>>,
      <<253, 36,
        <<51, 247, 24, 164, 150, 78, 137, 80, 7, 75, 119, 250, 38, 212, 190, 196,
          109, 214, 24, 92, 11, 88, 106, 109, 37, 196, 126, 198, 167, 221, 209, 229>>>>,
      <<253, 37,
        <<16, 11, 204, 114, 204, 37, 118, 88, 205, 129, 222, 127, 218, 58, 15, 228,
          70, 80, 221, 67, 25, 175, 214, 223, 0, 26, 18, 144, 170, 148, 167, 95>>>>,
      <<253, 38,
        <<104, 245, 148, 252, 53, 162, 209, 216, 246, 194, 174, 96, 216, 240, 191, 192,
          25, 176, 52, 23, 53, 176, 120, 76, 68, 67, 169, 225, 178, 28, 104, 202>>>>,
      <<253, 40,
        <<121, 213, 174, 31, 58, 120, 183, 150, 136, 147, 121, 72, 103, 235, 85, 93,
          83, 4, 207, 11, 158, 43, 21, 50, 196, 57, 37, 52, 255, 153, 201, 64>>>>,
      <<253, 252,
        <<215, 244, 217, 94, 129, 90, 184, 170, 210, 75, 14, 13, 230, 97, 51, 59,
          109, 116, 233, 8, 83, 49, 254, 53, 44, 177, 202, 82, 203, 91, 111, 120>>>>,
      <<253, 253,
        <<36, 48, 102, 252, 19, 166, 197, 153, 82, 15, 125, 212, 252, 245, 120, 69,
          125, 231, 227, 90, 177, 67, 118, 191, 79, 17, 55, 193, 47, 107, 69, 58>>>>,
      <<1, 254,
        <<75, 7, 41, 78, 134, 248, 105, 129, 123, 31, 160, 24, 110, 75, 24, 179,
          147, 52, 247, 62, 240, 136, 198, 129, 210, 48, 124, 33, 124, 82, 144, 141>>>>,
      <<2, 254,
        <<103, 77, 75, 24, 97, 26, 247, 143, 9, 50, 63, 48, 142, 39, 240, 152,
          53, 119, 202, 94, 222, 239, 250, 217, 245, 245, 246, 127, 77, 32, 129, 78>>>>,
      <<3, 254,
        <<64, 84, 227, 5, 57, 76, 180, 105, 63, 248, 159, 200, 46, 157, 128, 121,
          252, 158, 64, 109, 76, 54, 104, 229, 152, 210, 157, 229, 193, 238, 191, 66>>>>,
      <<4, 254,
        <<241, 216, 98, 103, 238, 254, 20, 109, 134, 242, 53, 27, 134, 114, 94, 208,
          43, 147, 250, 140, 64, 83, 9, 125, 82, 112, 192, 204, 182, 156, 139, 114>>>>,
      <<33, 254,
        <<182, 160, 242, 22, 241, 247, 103, 153, 34, 149, 162, 77, 35, 124, 200, 117,
          240, 58, 89, 136, 248, 121, 173, 255, 174, 164, 68, 189, 188, 53, 220, 248>>>>,
      <<35, 254,
        <<91, 173, 22, 117, 234, 93, 174, 118, 15, 220, 81, 146, 207, 141, 198, 129,
          79, 133, 180, 161, 205, 119, 19, 64, 87, 25, 9, 160, 208, 90, 12, 182>>>>,
      <<36, 254,
        <<208, 100, 182, 216, 95, 219, 208, 34, 127, 226, 151, 23, 24, 226, 232, 54,
          205, 55, 239, 242, 224, 175, 85, 186, 0, 21, 240, 191, 244, 204, 131, 212>>>>,
      <<37, 254,
        <<155, 81, 56, 50, 56, 188, 179, 240, 77, 90, 138, 46, 219, 129, 236, 232,
          0, 215, 102, 69, 43, 211, 15, 247, 186, 253, 225, 161, 221, 40, 237, 52>>>>,
      <<38, 254,
        <<242, 98, 77, 124, 215, 94, 189, 54, 122, 220, 64, 69, 207, 132, 232, 195,
          152, 146, 97, 115, 91, 58, 156, 91, 247, 176, 194, 121, 166, 27, 175, 11>>>>,
      <<39, 254,
        <<38, 178, 209, 251, 255, 191, 188, 155, 12, 111, 112, 146, 160, 129, 80, 90,
          153, 44, 51, 79, 102, 163, 133, 143, 7, 33, 201, 67, 130, 99, 145, 38>>>>,
      <<42, 254,
        <<127, 102, 57, 244, 13, 113, 83, 177, 180, 48, 50, 167, 245, 173, 188, 49,
          204, 161, 181, 72, 171, 45, 105, 128, 243, 144, 213, 72, 54, 85, 212, 228>>>>,
      <<44, 254,
        <<208, 20, 64, 145, 190, 48, 221, 151, 132, 140, 189, 107, 214, 85, 241, 191,
          219, 26, 158, 205, 164, 248, 76, 200, 55, 118, 219, 113, 109, 153, 186, 206>>>>,
      <<48, 254,
        <<195, 248, 125, 161, 166, 10, 158, 150, 243, 135, 235, 140, 6, 118, 9, 67,
          35, 235, 142, 109, 248, 242, 151, 207, 167, 57, 84, 2, 53, 26, 14, 7>>>>,
      <<207, 254,
        <<248, 184, 78, 53, 231, 105, 246, 25, 152, 138, 113, 139, 253, 133, 16, 181,
          40, 141, 15, 127, 107, 119, 11, 51, 154, 214, 247, 177, 101, 70, 138, 142>>>>,
      <<211, 254,
        <<166, 87, 237, 14, 189, 252, 194, 90, 135, 69, 122, 194, 115, 162, 42, 0,
          135, 206, 218, 96, 180, 221, 216, 27, 68, 169, 10, 145, 140, 189, 222, 204>>>>,
      <<233, 254,
        <<4, 53, 140, 36, 159, 141, 197, 251, 11, 7, 37, 31, 43, 86, 207, 26,
          171, 216, 116, 100, 153, 79, 153, 237, 23, 183, 132, 31, 93, 32, 100, 120>>>>,
      <<240, 254,
        <<53, 119, 77, 251, 1, 167, 156, 196, 160, 115, 229, 19, 106, 170, 0, 7,
          219, 218, 40, 246, 104, 204, 143, 148, 39, 119, 215, 181, 3, 253, 48, 217>>>>,
      <<252, 254,
        <<164, 162, 238, 91, 210, 10, 84, 67, 148, 73, 6, 94, 29, 167, 148, 131,
          34, 223, 75, 154, 186, 245, 56, 215, 174, 72, 247, 64, 206, 170, 221, 243>>>>,
      <<254, 2,
        <<55, 42, 132, 201, 9, 200, 208, 140, 232, 115, 141, 44, 112, 215, 15, 85,
          31, 217, 130, 187, 98, 189, 216, 43, 44, 242, 128, 37, 28, 38, 113, 124>>>>,
      <<254, 36,
        <<46, 101, 39, 49, 129, 43, 248, 155, 34, 47, 78, 40, 115, 189, 219, 77,
          188, 97, 107, 228, 81, 223, 58, 93, 247, 39, 76, 217, 41, 1, 173, 163>>>>,
      <<254, 37,
        <<160, 168, 71, 115, 52, 82, 10, 106, 56, 6, 240, 121, 123, 28, 215, 15,
          193, 148, 225, 193, 40, 99, 243, 45, 58, 191, 136, 93, 27, 130, 31, 37>>>>,
      <<254, 38,
        <<62, 235, 50, 244, 187, 12, 148, 253, 115, 105, 107, 39, 189, 10, 75, 241,
          218, 108, 193, 59, 221, 40, 7, 51, 77, 215, 246, 14, 95, 23, 177, 116>>>>,
      <<254, 40,
        <<69, 33, 175, 124, 57, 212, 55, 27, 52, 149, 184, 189, 223, 156, 204, 150,
          246, 247, 156, 109, 196, 14, 210, 182, 151, 228, 132, 15, 113, 208, 54, 46>>>>,
      <<254, 253,
        <<191, 156, 179, 102, 91, 106, 219, 103, 189, 206, 76, 37, 217, 0, 125, 200,
          18, 93, 105, 39, 55, 144, 240, 137, 94, 208, 158, 93, 11, 198, 136, 166>>>>,
      <<254, 254,
        <<54, 104, 196, 34, 65, 159, 232, 23, 246, 225, 40, 159, 55, 63, 212, 221,
          171, 248, 151, 13, 142, 187, 194, 29, 172, 123, 26, 6, 99, 21, 130, 169>>>>,
      <<36, 255,
        <<139, 228, 154, 199, 156, 178, 46, 70, 174, 214, 81, 199, 102, 182, 4, 197,
          88, 91, 150, 182, 159, 43, 68, 29, 17, 232, 56, 199, 242, 254, 153, 11>>>>,
      <<255, 40,
        <<197, 131, 133, 75, 181, 197, 207, 197, 214, 208, 194, 184, 136, 206, 62, 23,
          228, 104, 227, 73, 123, 243, 172, 36, 2, 202, 199, 185, 119, 149, 160, 142>>>>,
      <<35, 256,
        <<145, 28, 205, 142, 12, 37, 253, 206, 244, 10, 28, 60, 247, 7, 46, 136,
          22, 247, 75, 107, 46, 161, 195, 155, 219, 187, 88, 237, 114, 215, 156, 174>>>>,
      <<36, 256,
        <<242, 114, 25, 62, 105, 151, 108, 43, 94, 249, 66, 21, 89, 153, 236, 32,
          16, 32, 50, 219, 200, 3, 118, 173, 34, 200, 50, 232, 145, 11, 91, 193>>>>,
      <<252, 256,
        <<65, 212, 207, 92, 79, 95, 79, 3, 232, 112, 123, 95, 183, 1, 194, 163,
          24, 206, 110, 32, 125, 32, 164, 151, 205, 15, 159, 227, 219, 156, 242, 193>>>>,
      <<256, 35,
        <<102, 235, 165, 172, 196, 132, 117, 234, 239, 138, 71, 136, 167, 36, 153, 27,
          75, 0, 217, 169, 9, 60, 99, 6, 147, 121, 158, 125, 119, 120, 130, 9>>>>,
      <<256, 36,
        <<14, 238, 132, 195, 153, 186, 36, 151, 152, 222, 128, 95, 184, 106, 128, 230,
          108, 213, 209, 83, 224, 47, 161, 241, 44, 202, 249, 174, 157, 88, 199, 3>>>>,
      <<256, 38,
        <<17, 201, 143, 35, 139, 74, 213, 236, 222, 84, 202, 212, 56, 160, 16, 7,
          54, 83, 51, 141, 194, 56, 242, 54, 208, 97, 74, 201, 207, 198, 44, 241>>>>,
      <<256, 40,
        <<4, 84, 217, 18, 235, 151, 191, 49, 237, 12, 92, 63, 44, 224, 68, 127,
          174, 9, 141, 48, 253, 89, 6, 250, 41, 94, 23, 127, 119, 251, 81, 110>>>>,
      <<256, 253,
        <<232, 56, 160, 187, 107, 206, 251, 253, 146, 222, 19, 242, 167, 53, 123, 4,
          150, 159, 44, 202, 147, 55, 0, 48, 66, 147, 20, 4, 36, 79, 7, 72>>>>,
      <<2, 258,
        <<152, 255, 83, 179, 30, 11, 77, 215, 213, 45, 228, 15, 8, 217, 135, 108,
          240, 140, 176, 119, 250, 239, 138, 213, 34, 70, 157, 243, 200, 179, 30, 83>>>>,
      <<35, 258,
        <<110, 85, 171, 222, 158, 50, 155, 132, 100, 218, 131, 232, 234, 220, 177, 212,
          104, 224, 212, 93, 93, 226, 172, 154, 190, 45, 14, 66, 63, 203, 234, 189>>>>,
      <<258, 1,
        <<80, 133, 254, 214, 85, 62, 58, 241, 51, 62, 186, 103, 125, 3, 113, 112,
          23, 112, 146, 65, 184, 246, 168, 126, 156, 120, 51, 161, 111, 7, 69, 69>>>>,
      <<258, 35,
        <<20, 181, 73, 193, 28, 124, 130, 51, 200, 9, 127, 199, 150, 58, 7, 135,
          4, 252, 52, 41, 216, 74, 66, 48, 128, 61, 138, 56, 87, 24, 246, 91>>>>,
      <<258, 37,
        <<202, 10, 199, 234, 236, 84, 113, 42, 13, 232, 139, 203, 233, 51, 174, 244,
          87, 172, 146, 42, 141, 237, 220, 116, 74, 32, 2, 41, 137, 199, 117, 12>>>>,
      <<258, 38,
        <<98, 10, 32, 49, 160, 70, 11, 65, 170, 184, 236, 247, 202, 161, 30, 31,
          175, 109, 245, 56, 192, 244, 255, 90, 173, 37, 240, 74, 206, 146, 122, 11>>>>,
      <<258, 208,
        <<102, 181, 53, 68, 24, 29, 165, 82, 115, 196, 151, 112, 226, 216, 7, 232,
          41, 184, 109, 152, 105, 26, 146, 37, 90, 120, 147, 172, 159, 122, 249, 41>>>>,
      <<258, 210,
        <<26, 183, 171, 152, 165, 188, 66, 201, 11, 80, 194, 182, 135, 140, 47, 63,
          156, 62, 25, 193, 228, 60, 77, 191, 219, 186, 114, 195, 249, 96, 182, 156>>>>,
      <<258, 215,
        <<113, 128, 173, 14, 226, 13, 0, 214, 51, 40, 47, 169, 52, 94, 141, 71,
          131, 23, 50, 194, 125, 20, 67, 235, 116, 166, 64, 111, 143, 157, 233, 64>>>>,
      <<258, 217,
        <<174, 2, 132, 59, 235, 21, 249, 63, 46, 238, 74, 3, 156, 180, 26, 166,
          96, 208, 176, 159, 151, 70, 239, 50, 216, 231, 103, 8, 41, 128, 223, 122>>>>,
      <<258, 222,
        <<52, 57, 88, 169, 104, 64, 116, 208, 129, 34, 211, 49, 43, 6, 217, 44,
          0, 176, 100, 127, 235, 56, 247, 223, 178, 157, 132, 118, 128, 162, 45, 186>>>>,
      <<258, 226,
        <<82, 226, 238, 215, 159, 93, 180, 159, 93, 69, 54, 211, 170, 204, 70, 203,
          65, 138, 64, 88, 245, 129, 227, 0, 246, 16, 188, 48, 204, 55, 62, 40>>>>,
      <<258, 253,
        <<19, 105, 134, 23, 63, 108, 29, 116, 88, 127, 41, 146, 78, 183, 125, 7,
          43, 157, 103, 87, 253, 156, 97, 33, 16, 101, 206, 92, 165, 67, 212, 29>>>>,
      <<1, 259,
        <<50, 25, 106, 164, 115, 197, 116, 195, 231, 7, 191, 90, 184, 122, 206, 251,
          148, 42, 67, 43, 222, 159, 112, 43, 195, 230, 103, 200, 26, 87, 205, 140>>>>,
      <<2, 259,
        <<110, 109, 69, 156, 99, 98, 72, 2, 106, 70, 138, 64, 157, 22, 104, 173,
          38, 104, 75, 255, 191, 185, 255, 166, 48, 183, 197, 38, 111, 129, 27, 52>>>>,
      <<36, 259,
        <<155, 204, 22, 254, 131, 233, 209, 94, 233, 190, 188, 6, 76, 163, 199, 22,
          251, 231, 89, 143, 150, 43, 228, 41, 207, 173, 70, 43, 244, 97, 103, 113>>>>,
      <<259, 1,
        <<152, 59, 107, 232, 60, 129, 137, 196, 47, 75, 200, 210, 101, 60, 27, 181,
          195, 193, 80, 60, 137, 150, 154, 89, 115, 234, 223, 29, 185, 71, 165, 91>>>>,
      <<259, 2,
        <<200, 94, 13, 188, 212, 16, 190, 18, 154, 53, 205, 223, 13, 131, 232, 174,
          151, 141, 200, 208, 227, 248, 145, 123, 108, 202, 168, 65, 41, 38, 228, 25>>>>,
      <<259, 35,
        <<203, 56, 153, 14, 217, 217, 190, 103, 204, 123, 185, 50, 112, 178, 75, 200,
          44, 60, 154, 248, 226, 251, 88, 190, 9, 18, 85, 190, 227, 251, 53, 179>>>>,
      <<259, 36,
        <<79, 172, 56, 179, 193, 91, 41, 210, 246, 136, 160, 137, 39, 88, 26, 1,
          111, 210, 123, 134, 237, 86, 133, 40, 168, 83, 192, 22, 142, 120, 126, 226>>>>,
      <<259, 37,
        <<230, 61, 216, 116, 212, 160, 128, 93, 218, 226, 245, 120, 20, 42, 5, 50,
          171, 13, 94, 251, 121, 136, 104, 131, 223, 189, 241, 206, 236, 200, 153, 230>>>>,
      <<259, 38,
        <<93, 68, 201, 34, 187, 228, 10, 100, 229, 234, 219, 252, 173, 191, 98, 34,
          123, 87, 28, 65, 215, 134, 53, 152, 213, 195, 92, 18, 1, 180, 15, 2>>>>,
      <<259, 208,
        <<8, 169, 207, 68, 12, 110, 195, 156, 213, 122, 160, 226, 74, 40, 169, 194,
          126, 125, 56, 249, 153, 63, 11, 104, 107, 32, 120, 14, 161, 106, 10, 43>>>>,
      <<259, 210,
        <<245, 108, 27, 230, 23, 188, 201, 254, 160, 5, 85, 122, 95, 205, 153, 103,
          90, 60, 78, 75, 31, 191, 101, 238, 126, 27, 70, 242, 225, 93, 32, 129>>>>,
      <<259, 215,
        <<23, 204, 37, 216, 145, 28, 140, 127, 41, 26, 28, 245, 108, 233, 141, 75,
          123, 239, 195, 180, 182, 230, 151, 102, 173, 133, 205, 203, 128, 69, 166, 35>>>>,
      <<259, 217,
        <<73, 52, 200, 224, 167, 97, 241, 86, 176, 101, 128, 97, 97, 23, 20, 241,
          100, 138, 115, 106, 110, 139, 93, 188, 155, 149, 86, 240, 203, 231, 111, 232>>>>,
      <<259, 234,
        <<247, 59, 86, 173, 230, 105, 147, 171, 0, 43, 144, 118, 7, 121, 29, 252,
          187, 213, 42, 173, 70, 191, 147, 77, 145, 73, 129, 50, 149, 188, 2, 127>>>>,
      <<259, 239,
        <<179, 126, 166, 153, 175, 63, 76, 35, 176, 167, 99, 9, 233, 72, 162, 172,
          237, 167, 182, 13, 145, 56, 178, 92, 164, 80, 185, 165, 33, 209, 218, 113>>>>,
      <<259, 253,
        <<108, 71, 112, 110, 47, 116, 95, 25, 174, 89, 223, 238, 45, 10, 165, 173,
          119, 251, 146, 60, 82, 138, 230, 154, 40, 163, 245, 100, 20, 211, 129, 162>>>>,
      <<1, 260,
        <<61, 186, 74, 13, 153, 6, 151, 217, 12, 2, 124, 192, 116, 22, 127, 249,
          146, 172, 45, 194, 170, 199, 165, 243, 3, 211, 166, 218, 97, 68, 89, 174>>>>,
      <<2, 260,
        <<230, 131, 15, 134, 134, 92, 229, 121, 115, 174, 191, 76, 182, 73, 3, 202,
          239, 251, 156, 154, 21, 10, 2, 191, 135, 36, 207, 185, 121, 211, 47, 203>>>>,
      <<3, 260,
        <<145, 50, 234, 120, 231, 171, 102, 223, 245, 78, 71, 171, 144, 142, 40, 160,
          172, 147, 236, 244, 92, 213, 7, 76, 253, 2, 68, 250, 94, 160, 135, 235>>>>,
      <<33, 260,
        <<131, 236, 185, 191, 69, 172, 205, 184, 71, 155, 105, 116, 213, 140, 158, 213,
          153, 1, 201, 215, 202, 16, 141, 190, 220, 208, 246, 67, 238, 56, 23, 190>>>>,
      <<34, 260,
        <<168, 12, 63, 246, 183, 198, 11, 38, 205, 12, 155, 79, 177, 227, 233, 130,
          121, 213, 70, 108, 226, 72, 228, 195, 91, 187, 45, 3, 210, 160, 69, 56>>>>,
      <<35, 260,
        <<214, 122, 85, 20, 125, 27, 6, 34, 76, 90, 77, 173, 97, 159, 215, 253,
          251, 235, 139, 153, 136, 146, 42, 54, 236, 36, 92, 9, 163, 90, 146, 59>>>>,
      <<36, 260,
        <<186, 22, 28, 12, 146, 57, 19, 183, 15, 252, 152, 46, 137, 29, 219, 193,
          49, 24, 72, 91, 122, 163, 73, 7, 148, 103, 83, 109, 223, 173, 157, 112>>>>,
      <<37, 260,
        <<222, 181, 63, 154, 140, 210, 127, 100, 135, 148, 52, 235, 216, 215, 198, 226,
          189, 149, 158, 148, 133, 17, 163, 62, 177, 108, 149, 226, 45, 80, 104, 126>>>>,
      <<38, 260,
        <<55, 58, 16, 39, 1, 173, 189, 191, 81, 152, 0, 141, 200, 214, 127, 129,
          118, 197, 189, 151, 233, 101, 22, 46, 190, 102, 222, 1, 170, 222, 25, 154>>>>,
      <<39, 260,
        <<19, 137, 27, 13, 12, 36, 236, 182, 10, 133, 180, 21, 72, 221, 137, 62,
          50, 31, 135, 237, 182, 175, 175, 124, 52, 224, 102, 32, 71, 24, 113, 107>>>>,
      <<40, 260,
        <<170, 189, 94, 103, 93, 10, 119, 255, 181, 123, 56, 10, 28, 110, 116, 164,
          245, 199, 70, 136, 136, 236, 71, 250, 243, 133, 52, 119, 44, 105, 92, 100>>>>,
      <<42, 260,
        <<87, 205, 132, 110, 134, 58, 27, 84, 203, 163, 254, 202, 7, 243, 45, 192,
          179, 71, 113, 34, 193, 166, 59, 199, 250, 234, 104, 22, 241, 176, 91, 142>>>>,
      <<207, 260,
        <<101, 126, 106, 242, 9, 96, 80, 129, 156, 151, 95, 13, 177, 138, 40, 184,
          81, 105, 178, 34, 191, 234, 146, 135, 229, 121, 98, 152, 67, 102, 138, 130>>>>,
      <<211, 260,
        <<86, 117, 36, 88, 204, 44, 4, 175, 215, 124, 251, 29, 150, 206, 99, 210,
          120, 227, 144, 71, 140, 239, 172, 40, 183, 215, 213, 214, 120, 239, 132, 48>>>>,
      <<233, 260,
        <<14, 237, 158, 68, 156, 70, 164, 121, 96, 109, 221, 224, 211, 113, 153, 66,
          70, 98, 24, 137, 89, 153, 97, 26, 40, 22, 100, 150, 101, 18, 86, 253>>>>,
      <<240, 260,
        <<118, 27, 124, 22, 88, 127, 218, 81, 28, 74, 93, 52, 27, 143, 243, 22,
          71, 30, 54, 90, 179, 7, 169, 81, 42, 142, 65, 252, 112, 87, 190, 167>>>>,
      <<252, 260,
        <<72, 64, 209, 105, 119, 86, 207, 88, 124, 80, 169, 46, 79, 33, 64, 34,
          243, 248, 86, 85, 37, 228, 43, 140, 129, 236, 160, 164, 2, 242, 81, 184>>>>,
      <<253, 260,
        <<235, 38, 34, 93, 63, 72, 26, 234, 12, 111, 86, 49, 207, 243, 155, 41,
          132, 153, 58, 63, 41, 127, 40, 109, 42, 163, 165, 124, 142, 202, 253, 102>>>>,
      <<258, 260,
        <<16, 230, 208, 144, 82, 197, 52, 36, 126, 69, 50, 39, 71, 16, 161, 13,
          165, 54, 182, 74, 242, 238, 146, 69, 251, 148, 115, 226, 184, 114, 103, 99>>>>,
      <<259, 260,
        <<34, 43, 116, 214, 140, 252, 107, 139, 147, 56, 171, 99, 208, 143, 107, 228,
          221, 52, 82, 175, 149, 232, 82, 5, 197, 13, 187, 202, 246, 11, 95, 177>>>>,
      <<260, 1,
        <<171, 47, 0, 162, 134, 1, 20, 122, 212, 71, 173, 169, 55, 107, 98, 184,
          87, 7, 162, 88, 104, 33, 235, 80, 25, 135, 248, 167, 72, 218, 178, 120>>>>,
      <<260, 2,
        <<194, 238, 111, 163, 135, 163, 113, 197, 65, 121, 79, 193, 227, 71, 43, 74,
          65, 44, 131, 1, 97, 19, 134, 65, 15, 254, 202, 96, 45, 41, 202, 174>>>>,
      <<260, 3,
        <<235, 14, 104, 103, 63, 94, 249, 167, 124, 43, 214, 32, 5, 94, 73, 26,
          166, 62, 143, 115, 24, 220, 169, 29, 75, 119, 24, 174, 183, 227, 20, 108>>>>,
      <<260, 4,
        <<141, 99, 182, 164, 3, 199, 122, 246, 229, 212, 180, 42, 58, 201, 73, 137,
          61, 191, 231, 51, 128, 158, 92, 59, 129, 66, 128, 224, 168, 109, 202, 195>>>>,
      <<260, 33,
        <<192, 208, 218, 62, 175, 190, 181, 186, 49, 141, 79, 87, 158, 21, 40, 151,
          166, 220, 105, 15, 86, 171, 201, 59, 53, 248, 220, 52, 254, 202, 148, 67>>>>,
      <<260, 35,
        <<35, 173, 25, 165, 103, 248, 142, 62, 240, 72, 28, 189, 161, 144, 15, 73,
          113, 113, 161, 99, 161, 182, 171, 190, 86, 8, 200, 236, 179, 146, 28, 52>>>>,
      <<260, 36,
        <<238, 119, 100, 143, 24, 25, 8, 90, 210, 215, 62, 217, 234, 245, 52, 173,
          22, 237, 80, 25, 7, 168, 147, 183, 31, 62, 223, 116, 19, 233, 240, 87>>>>,
      <<260, 37,
        <<138, 98, 28, 102, 135, 218, 92, 219, 82, 233, 66, 188, 154, 222, 103, 250,
          136, 85, 106, 222, 219, 95, 213, 100, 253, 219, 103, 65, 114, 234, 0, 154>>>>,
      <<260, 38,
        <<241, 96, 148, 201, 222, 228, 205, 160, 8, 46, 64, 94, 154, 216, 177, 95,
          68, 75, 219, 40, 87, 201, 201, 129, 185, 176, 73, 120, 70, 236, 186, 188>>>>,
      <<260, 39,
        <<251, 118, 218, 192, 240, 10, 104, 196, 248, 67, 78, 216, 155, 1, 114, 5,
          25, 171, 135, 229, 81, 148, 116, 217, 161, 23, 146, 27, 189, 63, 206, 8>>>>,
      <<260, 40,
        <<43, 1, 198, 190, 74, 146, 210, 38, 47, 123, 57, 195, 186, 63, 43, 57,
          34, 66, 31, 73, 193, 113, 123, 101, 252, 103, 72, 135, 92, 85, 75, 115>>>>,
      <<260, 41,
        <<154, 233, 124, 93, 153, 185, 189, 24, 34, 11, 116, 103, 245, 170, 215, 57,
          83, 217, 134, 179, 33, 129, 112, 3, 113, 237, 157, 241, 121, 34, 119, 112>>>>,
      <<260, 42,
        <<205, 252, 143, 239, 131, 102, 205, 109, 198, 10, 190, 182, 36, 54, 76, 78,
          30, 163, 29, 5, 52, 186, 103, 159, 158, 6, 64, 37, 72, 161, 157, 184>>>>,
      <<260, 43,
        <<134, 73, 91, 199, 234, 122, 9, 238, 67, 111, 233, 187, 40, 154, 109, 202,
          65, 109, 189, 3, 227, 144, 21, 96, 33, 160, 145, 206, 20, 246, 241, 131>>>>,
      <<260, 45,
        <<18, 235, 26, 50, 249, 43, 125, 30, 147, 34, 105, 226, 212, 71, 132, 229,
          136, 132, 159, 122, 109, 226, 16, 65, 237, 230, 211, 151, 64, 154, 158, 193>>>>,
      <<260, 49,
        <<201, 0, 211, 33, 244, 80, 166, 90, 71, 153, 225, 207, 3, 130, 49, 105,
          67, 38, 88, 129, 99, 100, 54, 241, 102, 244, 110, 111, 209, 212, 159, 234>>>>,
      <<260, 207,
        <<245, 248, 75, 119, 8, 198, 163, 56, 106, 85, 166, 97, 67, 136, 196, 144,
          34, 186, 15, 154, 7, 75, 245, 16, 98, 220, 69, 28, 147, 9, 111, 158>>>>,
      <<260, 208,
        <<100, 166, 219, 119, 189, 103, 81, 79, 205, 119, 5, 195, 161, 246, 161, 250,
          107, 204, 88, 27, 95, 16, 134, 70, 184, 92, 189, 120, 73, 226, 102, 80>>>>,
      <<260, 210,
        <<45, 247, 142, 176, 42, 109, 78, 34, 74, 81, 19, 58, 205, 223, 46, 206,
          97, 88, 163, 90, 90, 167, 187, 199, 158, 98, 93, 185, 87, 191, 249, 240>>>>,
      <<260, 211,
        <<158, 89, 216, 92, 3, 18, 220, 22, 187, 21, 121, 173, 184, 54, 158, 91,
          7, 248, 133, 232, 157, 26, 32, 39, 89, 95, 171, 144, 123, 129, 49, 131>>>>,
      <<260, 212,
        <<193, 149, 85, 107, 199, 107, 167, 224, 104, 39, 18, 174, 36, 240, 208, 111,
          189, 199, 151, 117, 4, 142, 211, 76, 83, 82, 108, 159, 238, 169, 49, 2>>>>,
      <<260, 221,
        <<58, 115, 164, 215, 54, 32, 113, 32, 20, 104, 203, 76, 37, 225, 1, 51,
          214, 212, 144, 57, 205, 163, 99, 192, 109, 137, 232, 194, 94, 208, 109, 168>>>>,
      <<260, 226,
        <<91, 180, 33, 210, 20, 110, 190, 225, 165, 244, 63, 36, 51, 75, 119, 136,
          70, 18, 143, 86, 125, 116, 120, 241, 200, 157, 17, 16, 129, 146, 169, 235>>>>,
      <<260, 233,
        <<119, 197, 206, 221, 100, 129, 14, 112, 227, 50, 26, 241, 251, 81, 158, 1,
          196, 212, 17, 200, 140, 213, 20, 177, 214, 137, 164, 27, 99, 41, 249, 132>>>>,
      <<260, 240,
        <<218, 136, 9, 39, 126, 190, 236, 87, 70, 158, 97, 252, 37, 218, 247, 172,
          222, 29, 126, 13, 26, 59, 220, 55, 218, 88, 174, 86, 214, 127, 131, 180>>>>,
      <<260, 252,
        <<197, 53, 101, 191, 138, 5, 93, 100, 156, 239, 222, 249, 52, 217, 203, 70,
          93, 105, 233, 73, 205, 47, 17, 115, 173, 200, 19, 100, 243, 61, 30, 26>>>>,
      <<260, 253,
        <<56, 12, 237, 27, 167, 69, 36, 60, 238, 224, 79, 225, 248, 122, 56, 40,
          166, 124, 162, 123, 66, 35, 135, 165, 91, 248, 79, 99, 163, 6, 169, 81>>>>,
      <<260, 254,
        <<161, 139, 41, 125, 156, 133, 8, 192, 225, 119, 218, 56, 215, 165, 94, 210,
          103, 210, 54, 195, 35, 235, 225, 173, 79, 106, 149, 65, 178, 112, 228, 224>>>>,
      <<260, 256,
        <<213, 65, 37, 248, 90, 100, 34, 119, 236, 82, 140, 83, 15, 156, 243, 248,
          240, 208, 60, 79, 68, 100, 209, 131, 221, 0, 59, 17, 192, 12, 111, 24>>>>,
      <<260, 260,
        <<128, 91, 41, 208, 7, 180, 144, 205, 208, 15, 204, 138, 218, 139, 111, 225,
          148, 159, 123, 12, 103, 127, 203, 1, 235, 90, 19, 251, 156, 36, 219, 50>>>>,
      <<1, 261,
        <<173, 167, 56, 230, 161, 253, 200, 223, 243, 187, 135, 122, 151, 108, 8, 52,
          180, 241, 186, 126, 39, 45, 187, 43, 150, 158, 145, 27, 204, 220, 220, 49>>>>,
      <<2, 261,
        <<123, 51, 230, 254, 225, 198, 87, 68, 176, 10, 180, 249, 240, 210, 16, 60,
          242, 48, 68, 254, 87, 232, 87, 212, 24, 167, 49, 134, 118, 126, 175, 198>>>>,
      <<3, 261,
        <<166, 26, 250, 64, 21, 233, 90, 23, 14, 164, 115, 249, 229, 145, 46, 27,
          113, 90, 113, 51, 77, 137, 145, 215, 108, 0, 107, 53, 124, 217, 56, 99>>>>,
      <<33, 261,
        <<190, 224, 136, 27, 5, 187, 150, 91, 209, 6, 232, 133, 157, 229, 68, 220,
          130, 170, 146, 18, 61, 145, 46, 186, 52, 16, 82, 251, 210, 207, 241, 67>>>>,
      <<35, 261,
        <<75, 60, 156, 96, 143, 22, 57, 205, 97, 60, 155, 130, 103, 165, 4, 199,
          84, 50, 252, 160, 126, 188, 209, 79, 201, 177, 115, 149, 201, 15, 147, 178>>>>,
      <<36, 261,
        <<118, 246, 240, 28, 76, 255, 117, 206, 127, 81, 66, 63, 91, 160, 215, 113,
          32, 142, 169, 23, 70, 155, 80, 174, 16, 67, 255, 236, 202, 209, 143, 23>>>>,
      <<37, 261,
        <<29, 64, 57, 103, 35, 170, 215, 197, 253, 122, 171, 71, 233, 164, 232, 64,
          216, 35, 133, 245, 148, 159, 126, 76, 44, 57, 11, 196, 13, 189, 208, 225>>>>,
      <<38, 261,
        <<182, 45, 12, 138, 88, 150, 129, 237, 4, 210, 1, 90, 249, 222, 207, 0,
          233, 1, 242, 4, 157, 21, 62, 44, 173, 18, 73, 26, 231, 2, 211, 197>>>>,
      <<39, 261,
        <<177, 137, 26, 101, 22, 52, 156, 11, 81, 129, 114, 30, 209, 116, 135, 132,
          142, 80, 17, 139, 7, 133, 14, 84, 227, 31, 171, 4, 97, 9, 97, 247>>>>,
      <<41, 261,
        <<165, 187, 110, 7, 186, 214, 147, 196, 25, 37, 164, 252, 101, 15, 190, 115,
          130, 145, 135, 64, 114, 138, 40, 100, 182, 1, 47, 215, 9, 191, 81, 22>>>>,
      <<42, 261,
        <<73, 67, 175, 205, 143, 206, 45, 11, 214, 60, 136, 193, 224, 27, 146, 73,
          234, 68, 122, 212, 196, 226, 105, 78, 82, 14, 56, 103, 1, 170, 233, 46>>>>,
      <<207, 261,
        <<42, 163, 153, 26, 197, 0, 220, 128, 16, 11, 11, 130, 102, 74, 3, 6,
          23, 194, 99, 3, 191, 79, 9, 133, 89, 141, 80, 223, 133, 180, 218, 241>>>>,
      <<210, 261,
        <<10, 47, 58, 214, 169, 131, 172, 35, 15, 232, 247, 80, 184, 95, 189, 90,
          119, 204, 103, 58, 203, 238, 107, 59, 85, 235, 104, 148, 101, 57, 139, 11>>>>,
      <<211, 261,
        <<145, 145, 6, 77, 237, 218, 231, 11, 73, 95, 156, 58, 254, 55, 212, 245,
          151, 204, 56, 24, 143, 63, 136, 202, 47, 248, 210, 115, 207, 103, 20, 77>>>>,
      <<221, 261,
        <<184, 220, 76, 97, 225, 255, 153, 85, 217, 169, 70, 193, 17, 149, 88, 204,
          199, 53, 106, 200, 45, 156, 129, 118, 28, 71, 163, 102, 187, 132, 37, 9>>>>,
      <<226, 261,
        <<206, 166, 151, 33, 5, 199, 5, 119, 90, 16, 7, 162, 196, 168, 226, 175,
          243, 183, 163, 12, 17, 180, 33, 79, 77, 71, 233, 52, 209, 215, 226, 3>>>>,
      <<233, 261,
        <<113, 198, 97, 105, 168, 152, 191, 40, 180, 172, 215, 25, 180, 221, 11, 75,
          93, 69, 58, 170, 133, 155, 151, 157, 86, 245, 253, 41, 55, 99, 20, 215>>>>,
      <<240, 261,
        <<157, 83, 134, 164, 194, 54, 242, 47, 119, 120, 209, 4, 12, 33, 224, 165,
          28, 250, 169, 52, 64, 37, 110, 204, 18, 95, 168, 222, 74, 181, 102, 230>>>>,
      <<252, 261,
        <<197, 197, 115, 138, 24, 90, 48, 220, 77, 88, 112, 30, 27, 39, 45, 104,
          165, 118, 204, 95, 34, 106, 105, 169, 234, 6, 183, 128, 51, 102, 27, 104>>>>,
      <<253, 261,
        <<233, 233, 171, 180, 176, 246, 87, 100, 102, 85, 205, 205, 53, 189, 141, 148,
          120, 99, 42, 111, 201, 80, 90, 165, 14, 8, 59, 117, 239, 189, 32, 170>>>>,
      <<254, 261,
        <<235, 65, 43, 9, 7, 113, 58, 221, 40, 245, 5, 72, 82, 72, 64, 56,
          202, 88, 26, 85, 223, 7, 186, 12, 41, 59, 34, 22, 102, 44, 222, 180>>>>,
      <<256, 261,
        <<190, 74, 19, 1, 14, 102, 101, 234, 232, 135, 175, 45, 251, 165, 125, 176,
          20, 119, 64, 196, 27, 218, 207, 39, 64, 215, 29, 205, 82, 49, 79, 196>>>>,
      <<260, 261,
        <<204, 195, 154, 144, 169, 165, 109, 90, 9, 103, 91, 224, 225, 47, 243, 16,
          249, 247, 102, 101, 38, 8, 9, 72, 254, 33, 33, 113, 255, 181, 118, 212>>>>,
      <<261, 1,
        <<233, 125, 121, 170, 212, 143, 104, 38, 2, 178, 139, 183, 194, 215, 76, 224,
          158, 74, 124, 122, 66, 198, 202, 220, 90, 165, 169, 247, 216, 165, 201, 81>>>>,
      <<261, 2,
        <<97, 86, 185, 233, 79, 97, 65, 255, 164, 123, 211, 39, 230, 157, 184, 27,
          29, 202, 228, 15, 195, 36, 162, 65, 167, 208, 56, 61, 194, 24, 27, 55>>>>,
      <<261, 35,
        <<83, 213, 98, 6, 18, 14, 183, 255, 175, 231, 131, 172, 223, 31, 119, 152,
          203, 187, 180, 166, 75, 2, 74, 83, 168, 12, 152, 130, 102, 247, 30, 193>>>>,
      <<261, 36,
        <<80, 31, 150, 203, 55, 224, 206, 165, 165, 180, 3, 166, 111, 215, 118, 112,
          127, 237, 95, 24, 225, 147, 178, 207, 186, 252, 129, 235, 212, 242, 62, 43>>>>,
      <<261, 37,
        <<166, 63, 82, 197, 89, 1, 187, 12, 207, 104, 40, 183, 70, 168, 212, 1,
          162, 230, 234, 218, 125, 157, 148, 183, 156, 167, 169, 121, 214, 3, 130, 126>>>>,
      <<261, 38,
        <<214, 13, 251, 8, 158, 211, 245, 140, 70, 171, 243, 213, 99, 241, 27, 164,
          194, 232, 131, 253, 128, 38, 253, 127, 109, 82, 20, 167, 84, 163, 118, 250>>>>,
      <<261, 40,
        <<148, 62, 89, 24, 131, 162, 235, 241, 217, 125, 235, 64, 81, 211, 187, 17,
          161, 218, 154, 116, 166, 78, 249, 14, 231, 98, 102, 210, 60, 15, 97, 25>>>>,
      <<261, 252,
        <<117, 234, 210, 97, 190, 124, 96, 244, 47, 93, 140, 78, 57, 49, 22, 17,
          30, 228, 69, 218, 251, 65, 20, 168, 248, 67, 99, 237, 4, 231, 76, 188>>>>,
      <<261, 253,
        <<1, 71, 90, 70, 38, 204, 10, 158, 249, 165, 204, 247, 230, 223, 73, 102,
          112, 146, 182, 123, 62, 250, 226, 104, 119, 65, 214, 67, 117, 126, 217, 85>>>>,
      <<261, 254,
        <<115, 89, 207, 71, 0, 155, 32, 141, 78, 26, 159, 51, 159, 40, 130, 5,
          211, 174, 160, 224, 176, 215, 28, 55, 77, 182, 185, 131, 245, 172, 59, 32>>>>,
      <<261, 260,
        <<3, 241, 206, 226, 246, 244, 53, 190, 125, 188, 53, 84, 18, 164, 26, 23,
          180, 13, 63, 61, 61, 49, 235, 81, 231, 160, 206, 5, 32, 199, 126, 79>>>>,
      <<261, 261,
        <<64, 244, 79, 32, 40, 233, 53, 160, 9, 217, 158, 149, 107, 237, 229, 202,
          155, 106, 219, 206, 45, 239, 91, 244, 115, 124, 228, 62, 118, 221, 211, 2>>>>,
      <<1, 262,
        <<84, 215, 64, 151, 23, 194, 120, 21, 201, 253, 155, 175, 195, 55, 139, 235,
          19, 146, 130, 253, 26, 109, 79, 93, 121, 87, 252, 53, 69, 112, 156, 31>>>>,
      <<2, 262,
        <<10, 144, 212, 137, 84, 176, 13, 250, 180, 183, 237, 124, 127, 149, 54, 48,
          238, 20, 183, 193, 124, 42, 165, 3, 32, 48, 253, 10, 79, 91, 113, 189>>>>,
      <<3, 262,
        <<244, 237, 158, 153, 222, 142, 40, 196, 83, 79, 80, 151, 13, 4, 71, 30,
          118, 53, 42, 168, 91, 69, 63, 198, 21, 218, 36, 51, 213, 58, 232, 159>>>>,
      <<4, 262,
        <<174, 7, 62, 48, 186, 162, 39, 217, 60, 216, 61, 62, 64, 10, 13, 195,
          64, 102, 169, 239, 217, 164, 28, 57, 246, 1, 76, 205, 239, 44, 187, 68>>>>,
      <<33, 262,
        <<133, 254, 155, 185, 8, 62, 99, 222, 165, 39, 129, 206, 252, 216, 58, 106,
          176, 179, 135, 57, 63, 13, 165, 15, 82, 125, 225, 136, 38, 148, 7, 60>>>>,
      <<35, 262,
        <<148, 233, 9, 201, 100, 158, 173, 98, 214, 142, 236, 144, 159, 235, 187, 107,
          97, 168, 197, 234, 190, 94, 116, 71, 252, 80, 244, 131, 20, 192, 221, 30>>>>,
      <<36, 262,
        <<184, 150, 233, 137, 66, 242, 30, 214, 107, 14, 247, 61, 106, 74, 3, 200,
          186, 162, 101, 249, 198, 148, 50, 7, 166, 249, 150, 93, 75, 203, 50, 255>>>>,
      <<37, 262,
        <<13, 157, 243, 165, 92, 237, 165, 141, 73, 112, 91, 102, 130, 191, 73, 203,
          138, 91, 139, 33, 28, 249, 221, 212, 99, 107, 183, 81, 40, 235, 156, 19>>>>,
      <<38, 262,
        <<43, 165, 109, 74, 250, 150, 235, 68, 55, 153, 218, 119, 204, 66, 6, 167,
          154, 200, 230, 185, 157, 239, 176, 75, 140, 116, 88, 223, 251, 57, 105, 251>>>>,
      <<39, 262,
        <<4, 74, 75, 129, 193, 133, 112, 133, 19, 196, 194, 49, 89, 155, 125, 124,
          112, 106, 221, 40, 149, 100, 12, 141, 174, 195, 39, 68, 2, 246, 203, 247>>>>,
      <<42, 262,
        <<255, 144, 116, 154, 94, 180, 35, 247, 92, 193, 136, 83, 190, 101, 55, 17,
          14, 233, 77, 128, 52, 222, 196, 171, 237, 39, 84, 238, 118, 188, 140, 32>>>>,
      <<44, 262,
        <<116, 32, 249, 180, 48, 72, 91, 184, 252, 31, 180, 251, 73, 78, 240, 235,
          118, 11, 69, 24, 3, 235, 234, 211, 84, 157, 127, 147, 220, 217, 115, 244>>>>,
      <<48, 262,
        <<197, 14, 239, 46, 145, 61, 35, 174, 119, 98, 136, 28, 40, 39, 217, 103,
          82, 229, 83, 56, 38, 12, 42, 129, 192, 187, 217, 138, 143, 119, 143, 88>>>>,
      <<207, 262,
        <<79, 194, 163, 6, 107, 206, 127, 248, 159, 206, 5, 97, 12, 254, 77, 190,
          235, 245, 218, 218, 209, 1, 181, 98, 74, 198, 81, 72, 35, 5, 180, 150>>>>,
      <<211, 262,
        <<45, 92, 244, 101, 182, 209, 97, 159, 139, 35, 84, 98, 216, 117, 144, 111,
          69, 125, 5, 54, 11, 148, 200, 23, 7, 222, 130, 231, 4, 72, 197, 132>>>>,
      <<233, 262,
        <<74, 209, 109, 44, 92, 17, 42, 155, 94, 206, 42, 180, 141, 242, 232, 197,
          118, 117, 236, 81, 17, 36, 253, 104, 134, 228, 94, 179, 204, 116, 20, 241>>>>,
      <<240, 262,
        <<229, 190, 236, 103, 147, 137, 188, 36, 145, 247, 89, 119, 182, 215, 44, 33,
          122, 4, 171, 254, 192, 7, 125, 19, 10, 82, 243, 245, 22, 126, 164, 17>>>>,
      <<252, 262,
        <<72, 216, 160, 4, 92, 254, 6, 85, 24, 123, 111, 92, 184, 176, 206, 207,
          77, 185, 170, 102, 145, 146, 60, 44, 8, 41, 153, 227, 67, 43, 91, 121>>>>,
      <<260, 262,
        <<248, 19, 111, 121, 186, 196, 186, 239, 33, 76, 232, 139, 121, 6, 213, 113,
          51, 95, 102, 65, 68, 135, 18, 128, 15, 44, 203, 194, 227, 56, 148, 40>>>>,
      <<261, 262,
        <<113, 161, 238, 213, 124, 189, 247, 227, 3, 12, 143, 156, 38, 123, 190, 67,
          162, 103, 224, 80, 251, 95, 39, 214, 208, 173, 162, 132, 109, 250, 238, 15>>>>,
      <<262, 2,
        <<130, 95, 150, 105, 59, 39, 233, 112, 126, 224, 145, 174, 30, 94, 155, 159,
          130, 0, 79, 125, 114, 156, 150, 230, 255, 134, 21, 170, 233, 219, 168, 150>>>>,
      <<262, 3,
        <<168, 102, 39, 40, 214, 165, 78, 52, 193, 189, 219, 243, 43, 121, 60, 245,
          14, 150, 149, 18, 192, 102, 205, 97, 213, 96, 162, 58, 20, 123, 239, 188>>>>,
      <<262, 36,
        <<239, 243, 131, 176, 41, 51, 29, 104, 194, 188, 11, 55, 15, 251, 68, 46,
          183, 179, 246, 92, 200, 191, 14, 25, 246, 56, 106, 178, 108, 194, 141, 222>>>>,
      <<262, 38,
        <<75, 84, 233, 100, 74, 44, 162, 142, 44, 51, 253, 238, 159, 74, 14, 10,
          247, 239, 7, 93, 201, 177, 63, 60, 159, 138, 198, 246, 102, 134, 217, 184>>>>,
      <<262, 40,
        <<4, 187, 254, 32, 156, 21, 8, 109, 81, 214, 245, 245, 255, 65, 135, 162,
          159, 175, 84, 207, 20, 115, 241, 73, 85, 241, 86, 29, 210, 64, 51, 252>>>>,
      <<262, 253,
        <<74, 180, 115, 32, 81, 75, 58, 240, 91, 254, 55, 1, 19, 153, 162, 251,
          187, 0, 195, 21, 8, 66, 173, 69, 188, 117, 65, 33, 250, 175, 236, 142>>>>,
      <<262, 261,
        <<170, 63, 254, 191, 124, 155, 148, 184, 104, 213, 84, 188, 92, 77, 240, 254,
          225, 214, 100, 155, 236, 244, 163, 249, 39, 156, 42, 204, 204, 160, 246, 190>>>>,
      <<262, 262,
        <<142, 39, 41, 29, 101, 149, 199, 221, 83, 63, 99, 76, 203, 48, 67, 181,
          75, 87, 245, 7, 10, 173, 112, 168, 33, 201, 195, 178, 18, 20, 13, 174>>>>,
      <<36, 263,
        <<57, 236, 89, 25, 149, 106, 18, 77, 224, 88, 103, 189, 131, 132, 28, 5,
          158, 144, 171, 130, 124, 123, 134, 116, 255, 97, 233, 168, 17, 56, 7, 240>>>>,
      <<263, 40,
        <<219, 166, 76, 125, 173, 246, 242, 40, 86, 99, 54, 129, 43, 119, 23, 89,
          151, 223, 234, 95, 25, 121, 125, 114, 8, 75, 64, 230, 199, 184, 142, 144>>>>,
      <<35, 264,
        <<1, 231, 172, 104, 181, 124, 66, 161, 58, 242, 27, 147, 18, 168, 91, 155,
          113, 84, 25, 73, 103, 231, 178, 175, 111, 231, 113, 132, 155, 0, 211, 52>>>>,
      <<36, 264,
        <<205, 186, 49, 161, 212, 6, 51, 229, 92, 97, 70, 77, 235, 60, 12, 74,
          15, 24, 176, 218, 244, 210, 162, 122, 6, 224, 114, 250, 142, 65, 115, 211>>>>,
      <<252, 264,
        <<2, 16, 109, 143, 148, 231, 44, 179, 141, 83, 71, 216, 223, 250, 50, 67,
          94, 24, 21, 219, 192, 87, 57, 12, 41, 46, 219, 191, 211, 65, 240, 169>>>>,
      <<260, 264,
        <<29, 243, 3, 246, 40, 100, 72, 189, 62, 143, 10, 68, 182, 79, 44, 198,
          50, 77, 158, 218, 58, 51, 192, 231, 213, 107, 131, 52, 56, 153, 205, 0>>>>,
      <<264, 35,
        <<241, 41, 178, 172, 50, 116, 27, 94, 204, 224, 149, 77, 5, 194, 138, 156,
          107, 194, 169, 193, 241, 94, 140, 211, 34, 244, 38, 208, 191, 124, 53, 9>>>>,
      <<264, 36,
        <<70, 230, 203, 233, 82, 215, 72, 0, 15, 54, 248, 203, 195, 146, 235, 60,
          211, 45, 150, 46, 128, 7, 15, 44, 168, 115, 217, 201, 89, 237, 43, 145>>>>,
      <<264, 38,
        <<150, 246, 181, 99, 1, 213, 178, 169, 230, 178, 214, 126, 237, 87, 162, 26,
          83, 0, 153, 42, 115, 72, 2, 247, 28, 63, 203, 13, 96, 185, 52, 118>>>>,
      <<264, 40,
        <<57, 247, 192, 115, 173, 21, 27, 55, 12, 127, 219, 59, 202, 42, 45, 148,
          231, 194, 128, 92, 189, 88, 232, 203, 21, 177, 81, 22, 57, 11, 230, 92>>>>,
      <<264, 253,
        <<250, 37, 77, 220, 165, 112, 123, 246, 102, 40, 64, 220, 178, 43, 111, 37,
          103, 100, 25, 196, 61, 117, 250, 192, 235, 149, 77, 244, 27, 15, 214, 44>>>>,
      <<264, 261,
        <<240, 49, 87, 124, 113, 196, 226, 62, 32, 136, 0, 197, 30, 87, 240, 200,
          123, 64, 159, 106, 145, 155, 68, 245, 191, 46, 189, 191, 253, 137, 209, 163>>>>,
      <<35, 266,
        <<140, 161, 59, 37, 158, 66, 128, 63, 11, 17, 15, 141, 118, 165, 109, 74,
          133, 174, 66, 126, 43, 203, 192, 107, 101, 104, 22, 246, 30, 119, 32, 74>>>>,
      <<266, 35,
        <<145, 56, 190, 214, 157, 219, 162, 137, 87, 118, 187, 238, 45, 130, 83, 252,
          215, 69, 11, 191, 81, 34, 81, 82, 71, 239, 159, 18, 29, 104, 101, 200>>>>,
      <<36, 267,
        <<63, 98, 146, 86, 186, 207, 131, 219, 116, 85, 212, 105, 53, 146, 14, 220,
          61, 7, 110, 209, 85, 84, 227, 135, 1, 3, 80, 255, 25, 206, 170, 132>>>>,
      <<267, 36,
        <<164, 34, 251, 157, 241, 118, 86, 90, 240, 98, 210, 239, 194, 177, 99, 90,
          30, 83, 86, 9, 231, 78, 46, 241, 160, 42, 204, 229, 233, 83, 236, 210>>>>,
      <<1, 268,
        <<198, 13, 204, 190, 171, 34, 187, 245, 110, 196, 132, 201, 116, 71, 188, 30,
          161, 106, 217, 150, 213, 198, 140, 206, 166, 8, 188, 42, 87, 166, 54, 185>>>>,
      <<2, 268,
        <<66, 132, 157, 127, 219, 147, 223, 39, 189, 61, 145, 20, 129, 47, 60, 249,
          203, 60, 243, 177, 236, 54, 157, 5, 113, 108, 95, 189, 95, 60, 37, 115>>>>,
      <<3, 268,
        <<73, 105, 85, 199, 95, 68, 3, 229, 42, 109, 165, 165, 204, 43, 243, 231,
          37, 92, 59, 237, 195, 124, 241, 8, 71, 232, 82, 57, 160, 72, 44, 106>>>>,
      <<33, 268,
        <<180, 157, 211, 47, 237, 12, 244, 187, 51, 150, 118, 70, 85, 33, 41, 25,
          108, 111, 251, 221, 179, 166, 91, 3, 14, 45, 14, 116, 25, 175, 21, 72>>>>,
      <<35, 268,
        <<94, 235, 38, 203, 127, 244, 90, 198, 237, 87, 6, 120, 100, 114, 67, 111,
          163, 3, 114, 147, 126, 120, 57, 190, 132, 24, 15, 93, 116, 131, 0, 85>>>>,
      <<36, 268,
        <<194, 179, 72, 226, 78, 203, 210, 25, 182, 166, 233, 15, 207, 66, 116, 39,
          247, 138, 24, 50, 36, 82, 70, 146, 129, 249, 128, 66, 82, 128, 104, 70>>>>,
      <<37, 268,
        <<235, 206, 225, 131, 140, 76, 141, 177, 53, 22, 27, 118, 199, 185, 129, 150,
          128, 198, 242, 140, 82, 73, 105, 69, 121, 200, 195, 216, 235, 223, 237, 24>>>>,
      <<38, 268,
        <<227, 162, 184, 79, 187, 211, 177, 197, 63, 116, 164, 46, 2, 138, 245, 254,
          240, 85, 161, 83, 170, 113, 117, 74, 107, 246, 78, 119, 44, 41, 109, 86>>>>,
      <<39, 268,
        <<119, 51, 119, 129, 103, 115, 39, 88, 144, 250, 84, 137, 103, 193, 248, 49,
          10, 121, 213, 136, 36, 59, 228, 208, 240, 213, 98, 64, 48, 147, 85, 90>>>>,
      <<42, 268,
        <<75, 71, 37, 18, 156, 147, 253, 132, 69, 168, 32, 157, 92, 95, 21, 220,
          211, 63, 225, 255, 28, 37, 93, 128, 39, 30, 202, 122, 55, 102, 236, 38>>>>,
      <<207, 268,
        <<44, 16, 101, 244, 107, 16, 68, 250, 74, 219, 1, 179, 76, 237, 240, 178,
          167, 241, 211, 236, 4, 228, 3, 216, 89, 67, 188, 233, 45, 47, 208, 251>>>>,
      <<210, 268,
        <<71, 194, 107, 163, 248, 40, 119, 197, 225, 31, 29, 39, 126, 253, 136, 65,
          190, 17, 136, 24, 74, 204, 103, 245, 136, 218, 161, 66, 87, 5, 88, 178>>>>,
      <<211, 268,
        <<194, 140, 23, 184, 169, 220, 30, 224, 158, 99, 146, 7, 78, 103, 196, 129,
          161, 255, 63, 177, 2, 18, 199, 1, 156, 96, 151, 115, 233, 221, 138, 102>>>>,
      <<221, 268,
        <<78, 177, 66, 103, 107, 21, 89, 119, 200, 111, 62, 100, 21, 87, 169, 234,
          236, 117, 79, 169, 54, 167, 244, 155, 100, 172, 250, 58, 86, 218, 16, 39>>>>,
      <<226, 268,
        <<241, 206, 159, 122, 227, 28, 128, 14, 90, 38, 221, 26, 50, 185, 122, 165,
          175, 79, 5, 171, 60, 205, 200, 141, 56, 24, 162, 56, 17, 244, 172, 169>>>>,
      <<233, 268,
        <<122, 9, 160, 242, 178, 119, 197, 115, 80, 32, 206, 176, 48, 43, 36, 143,
          201, 24, 71, 157, 221, 68, 108, 1, 180, 21, 185, 212, 135, 124, 2, 127>>>>,
      <<240, 268,
        <<19, 220, 229, 213, 137, 179, 42, 84, 90, 169, 59, 39, 196, 75, 33, 243,
          10, 224, 217, 53, 111, 82, 52, 85, 91, 69, 209, 49, 179, 241, 215, 154>>>>,
      <<252, 268,
        <<219, 214, 127, 161, 27, 110, 100, 67, 59, 45, 15, 52, 220, 196, 122, 71,
          202, 56, 221, 94, 95, 74, 183, 80, 134, 122, 141, 251, 161, 220, 28, 227>>>>,
      <<253, 268,
        <<35, 247, 79, 253, 119, 89, 6, 74, 199, 193, 217, 26, 55, 72, 250, 234,
          182, 78, 42, 4, 224, 115, 198, 99, 171, 205, 121, 212, 76, 229, 207, 56>>>>,
      <<256, 268,
        <<175, 5, 224, 55, 142, 142, 229, 195, 131, 197, 128, 101, 238, 188, 239, 136,
          153, 178, 175, 6, 243, 77, 138, 95, 90, 26, 168, 179, 6, 218, 102, 76>>>>,
      <<260, 268,
        <<17, 204, 50, 160, 255, 252, 231, 69, 16, 86, 228, 126, 164, 66, 106, 15,
          201, 137, 71, 73, 165, 69, 235, 209, 163, 181, 103, 207, 93, 227, 15, 129>>>>,
      <<261, 268,
        <<33, 221, 167, 49, 212, 35, 10, 177, 42, 241, 206, 136, 228, 173, 242, 153,
          17, 161, 225, 146, 247, 30, 121, 160, 119, 250, 143, 42, 164, 195, 38, 56>>>>,
      <<264, 268,
        <<20, 206, 164, 41, 117, 152, 28, 211, 172, 49, 23, 61, 164, 240, 79, 164,
          40, 0, 185, 136, 36, 123, 5, 191, 244, 6, 152, 20, 162, 94, 174, 37>>>>,
      <<268, 1,
        <<195, 88, 7, 4, 12, 68, 213, 52, 212, 251, 115, 58, 90, 117, 241, 95,
          225, 155, 80, 234, 220, 110, 202, 194, 114, 144, 201, 237, 71, 149, 237, 150>>>>,
      <<268, 2,
        <<206, 187, 128, 217, 84, 61, 164, 37, 46, 17, 237, 13, 174, 204, 37, 104,
          113, 180, 12, 234, 139, 182, 162, 247, 219, 90, 244, 95, 213, 56, 251, 107>>>>,
      <<268, 3,
        <<13, 237, 224, 189, 163, 141, 23, 88, 79, 226, 165, 242, 153, 237, 21, 116,
          18, 219, 149, 37, 12, 159, 247, 188, 204, 23, 242, 26, 128, 223, 69, 217>>>>,
      <<268, 33,
        <<164, 160, 139, 91, 144, 162, 227, 232, 58, 188, 117, 154, 125, 217, 129, 27,
          187, 18, 30, 174, 154, 166, 207, 106, 156, 163, 150, 164, 23, 228, 135, 222>>>>,
      <<268, 35,
        <<255, 41, 113, 62, 255, 67, 222, 103, 187, 9, 110, 109, 237, 203, 219, 79,
          205, 240, 36, 244, 127, 190, 215, 151, 67, 6, 197, 49, 52, 16, 53, 221>>>>,
      <<268, 36,
        <<91, 193, 81, 5, 66, 183, 24, 42, 44, 35, 191, 221, 6, 11, 139, 125,
          185, 165, 63, 199, 228, 205, 90, 233, 87, 236, 105, 18, 40, 249, 49, 34>>>>,
      <<268, 37,
        <<64, 245, 147, 210, 145, 116, 47, 107, 174, 228, 22, 217, 152, 69, 136, 7,
          18, 154, 236, 113, 222, 216, 135, 111, 170, 93, 60, 230, 45, 204, 14, 57>>>>,
      <<268, 38,
        <<51, 17, 67, 20, 184, 42, 173, 55, 230, 222, 210, 104, 255, 174, 46, 204,
          180, 174, 236, 190, 31, 25, 38, 112, 204, 170, 72, 107, 171, 96, 146, 130>>>>,
      <<268, 39,
        <<14, 71, 145, 109, 43, 140, 61, 143, 177, 78, 235, 132, 190, 78, 17, 78,
          13, 5, 163, 183, 177, 67, 197, 149, 65, 90, 253, 89, 148, 75, 49, 31>>>>,
      <<268, 40,
        <<247, 227, 185, 186, 178, 6, 26, 146, 151, 125, 56, 64, 101, 129, 134, 236,
          116, 57, 220, 63, 176, 63, 100, 158, 203, 78, 6, 212, 24, 247, 227, 225>>>>,
      <<268, 42,
        <<26, 29, 249, 27, 8, 97, 20, 218, 42, 75, 236, 6, 189, 112, 238, 244,
          76, 170, 194, 172, 114, 198, 24, 149, 141, 177, 253, 67, 200, 148, 96, 190>>>>,
      <<268, 207,
        <<85, 230, 17, 92, 74, 90, 234, 228, 58, 86, 20, 62, 150, 125, 116, 142,
          188, 86, 184, 189, 162, 0, 40, 158, 120, 18, 174, 45, 34, 132, 19, 170>>>>,
      <<268, 210,
        <<119, 55, 105, 116, 73, 88, 222, 41, 205, 124, 35, 189, 233, 61, 129, 48,
          135, 58, 68, 4, 59, 221, 190, 223, 168, 64, 110, 227, 51, 39, 205, 146>>>>,
      <<268, 211,
        <<26, 40, 160, 105, 242, 35, 199, 105, 95, 107, 186, 20, 204, 113, 255, 89,
          121, 68, 5, 192, 113, 118, 41, 56, 142, 191, 21, 69, 15, 0, 169, 74>>>>,
      <<268, 221,
        <<44, 59, 222, 37, 104, 134, 216, 218, 20, 69, 216, 31, 39, 120, 103, 18,
          38, 172, 105, 125, 31, 168, 134, 254, 218, 59, 3, 6, 242, 210, 216, 201>>>>,
      <<268, 226,
        <<56, 182, 246, 227, 86, 213, 76, 137, 18, 80, 41, 168, 227, 178, 103, 228,
          109, 218, 213, 246, 243, 79, 224, 40, 19, 97, 226, 173, 162, 46, 120, 4>>>>,
      <<268, 233,
        <<1, 200, 208, 85, 3, 198, 135, 100, 51, 39, 74, 231, 196, 197, 161, 63,
          45, 220, 5, 12, 76, 208, 146, 179, 131, 224, 143, 60, 2, 6, 60, 70>>>>,
      <<268, 240,
        <<7, 153, 165, 196, 100, 148, 131, 22, 117, 74, 148, 79, 113, 73, 70, 52,
          158, 96, 59, 183, 92, 33, 212, 0, 166, 138, 72, 95, 231, 84, 110, 30>>>>,
      <<268, 252,
        <<0, 204, 121, 200, 160, 153, 86, 13, 19, 73, 248, 211, 16, 171, 74, 226,
          112, 211, 81, 38, 169, 40, 157, 180, 114, 18, 59, 225, 8, 170, 42, 88>>>>,
      <<268, 253,
        <<43, 227, 213, 137, 143, 54, 221, 217, 194, 72, 100, 23, 108, 14, 141, 144,
          157, 168, 25, 223, 199, 203, 65, 39, 79, 55, 35, 115, 50, 72, 10, 108>>>>,
      <<268, 256,
        <<200, 10, 131, 161, 35, 163, 27, 83, 178, 109, 77, 16, 195, 63, 153, 65,
          207, 163, 79, 205, 200, 229, 236, 239, 83, 122, 10, 208, 231, 203, 64, 84>>>>,
      <<268, 260,
        <<225, 166, 210, 250, 46, 189, 106, 207, 206, 158, 14, 228, 104, 208, 47, 64,
          188, 9, 144, 120, 249, 85, 199, 214, 81, 65, 20, 169, 173, 116, 117, 59>>>>,
      <<268, 261,
        <<183, 2, 190, 227, 210, 15, 177, 112, 31, 20, 164, 8, 62, 65, 169, 96,
          116, 92, 92, 49, 29, 27, 61, 205, 121, 151, 18, 206, 159, 127, 223, 150>>>>,
      <<268, 264,
        <<52, 221, 155, 195, 157, 10, 27, 210, 26, 119, 73, 214, 226, 206, 182, 28,
          172, 66, 162, 243, 80, 18, 55, 204, 91, 152, 208, 126, 220, 62, 47, 109>>>>,
      <<268, 268,
        <<184, 220, 155, 231, 24, 169, 125, 99, 237, 159, 190, 33, 153, 45, 5, 209,
          176, 237, 188, 93, 192, 81, 92, 97, 69, 92, 62, 108, 179, 154, 179, 136>>>>,
      <<269, 1,
        <<245, 165, 184, 53, 162, 161, 3, 251, 72, 137, 1, 100, 76, 8, 73, 104,
          142, 28, 197, 125, 242, 62, 100, 119, 74, 107, 34, 200, 65, 151, 147, 43>>>>,
      <<269, 2,
        <<133, 73, 95, 174, 122, 18, 63, 99, 84, 74, 236, 157, 226, 245, 116, 185,
          3, 204, 177, 249, 164, 249, 244, 183, 146, 60, 192, 210, 22, 99, 20, 92>>>>,
      <<269, 33,
        <<73, 224, 34, 84, 196, 133, 18, 38, 204, 78, 76, 225, 108, 98, 10, 155,
          5, 208, 106, 107, 83, 36, 212, 37, 119, 78, 83, 103, 230, 199, 145, 42>>>>,
      <<269, 34,
        <<71, 251, 37, 239, 74, 5, 172, 240, 157, 220, 34, 224, 79, 71, 8, 213,
          222, 8, 244, 156, 4, 161, 201, 141, 171, 9, 203, 181, 228, 17, 134, 45>>>>,
      <<269, 36,
        <<208, 40, 24, 110, 223, 254, 2, 116, 35, 197, 148, 226, 185, 244, 141, 221,
          141, 198, 134, 0, 5, 99, 108, 35, 145, 139, 212, 52, 179, 205, 135, 119>>>>,
      <<269, 38,
        <<82, 0, 75, 136, 220, 14, 39, 10, 182, 224, 252, 11, 208, 37, 111, 88,
          115, 158, 103, 151, 115, 60, 164, 101, 37, 86, 217, 4, 140, 142, 105, 221>>>>,
      <<35, 270,
        <<36, 156, 124, 70, 253, 104, 92, 19, 221, 224, 214, 248, 239, 129, 160, 198,
          60, 115, 139, 186, 80, 28, 45, 217, 246, 190, 247, 255, 110, 36, 233, 94>>>>,
      <<36, 270,
        <<13, 17, 207, 108, 250, 90, 171, 94, 200, 247, 87, 7, 116, 1, 196, 202,
          2, 106, 209, 126, 121, 208, 141, 101, 160, 12, 184, 212, 164, 36, 24, 40>>>>,
      <<252, 270,
        <<219, 208, 243, 127, 179, 137, 34, 40, 129, 146, 99, 170, 159, 205, 150, 46,
          123, 183, 112, 164, 161, 209, 132, 130, 162, 111, 172, 185, 12, 126, 80, 0>>>>,
      <<260, 270,
        <<97, 118, 115, 107, 232, 169, 213, 68, 3, 119, 45, 228, 143, 145, 10, 63,
          129, 129, 28, 94, 164, 4, 78, 248, 201, 237, 165, 49, 150, 52, 155, 103>>>>,
      <<1, 274,
        <<69, 233, 192, 206, 156, 14, 209, 224, 193, 222, 233, 245, 152, 156, 85, 73,
          168, 241, 66, 52, 121, 12, 170, 200, 2, 173, 215, 12, 153, 169, 154, 217>>>>,
      <<2, 274,
        <<50, 124, 77, 99, 156, 183, 79, 143, 7, 199, 222, 115, 239, 52, 91, 116,
          25, 85, 141, 234, 242, 122, 179, 90, 11, 65, 208, 87, 217, 196, 234, 153>>>>,
      <<35, 274,
        <<23, 222, 139, 154, 105, 108, 81, 153, 43, 148, 237, 171, 142, 43, 119, 169,
          72, 207, 251, 11, 108, 83, 129, 98, 253, 231, 5, 8, 154, 35, 214, 146>>>>,
      <<37, 274,
        <<18, 34, 65, 114, 132, 50, 132, 200, 133, 239, 13, 20, 63, 191, 30, 231,
          253, 129, 150, 249, 53, 17, 171, 223, 179, 79, 55, 52, 94, 156, 49, 104>>>>,
      <<210, 274,
        <<235, 138, 111, 196, 178, 188, 44, 52, 29, 244, 12, 91, 179, 114, 147, 90,
          189, 125, 184, 190, 206, 94, 27, 203, 100, 204, 42, 4, 171, 0, 7, 76>>>>,
      <<217, 274,
        <<168, 184, 161, 187, 53, 207, 220, 83, 216, 85, 27, 201, 101, 58, 13, 178,
          232, 238, 12, 160, 165, 31, 18, 95, 11, 37, 87, 119, 178, 68, 252, 145>>>>,
      <<226, 274,
        <<232, 164, 115, 176, 225, 99, 21, 113, 133, 199, 253, 172, 173, 157, 200, 97,
          148, 205, 6, 116, 239, 97, 123, 79, 39, 68, 49, 141, 117, 239, 187, 199>>>>,
      <<274, 1,
        <<187, 210, 76, 231, 75, 187, 135, 14, 92, 207, 25, 251, 195, 87, 102, 21,
          78, 53, 181, 230, 14, 110, 42, 214, 175, 9, 208, 120, 143, 213, 4, 66>>>>,
      <<274, 2,
        <<135, 124, 90, 170, 239, 189, 147, 39, 64, 90, 222, 132, 161, 24, 233, 5,
          1, 131, 103, 112, 57, 10, 104, 181, 197, 202, 200, 161, 155, 62, 97, 14>>>>,
      <<274, 36,
        <<113, 40, 230, 198, 201, 163, 69, 79, 87, 219, 212, 42, 108, 123, 207, 85,
          214, 165, 180, 149, 47, 90, 138, 82, 23, 83, 97, 157, 176, 43, 251, 52>>>>,
      <<274, 38,
        <<145, 154, 116, 0, 18, 3, 32, 255, 124, 113, 92, 183, 197, 217, 226, 153,
          229, 110, 189, 191, 87, 223, 46, 75, 255, 191, 117, 81, 41, 95, 228, 8>>>>,
      <<274, 211,
        <<20, 171, 82, 164, 173, 115, 127, 66, 140, 51, 213, 151, 129, 212, 166, 177,
          95, 244, 193, 222, 14, 226, 30, 116, 50, 18, 99, 43, 40, 53, 137, 40>>>>,
      <<274, 218,
        <<79, 76, 58, 236, 147, 184, 43, 38, 22, 252, 126, 104, 253, 109, 211, 158,
          186, 48, 237, 183, 39, 204, 199, 111, 135, 186, 242, 2, 92, 42, 23, 20>>>>,
      <<274, 227,
        <<1, 83, 56, 148, 71, 68, 65, 13, 191, 135, 215, 96, 224, 112, 225, 199,
          29, 153, 181, 11, 158, 6, 81, 196, 71, 12, 195, 20, 39, 141, 104, 200>>>>,
      <<1, 275,
        <<155, 36, 147, 234, 206, 174, 215, 40, 125, 20, 82, 184, 221, 126, 203, 84,
          186, 27, 30, 47, 116, 183, 70, 115, 146, 142, 155, 47, 255, 219, 198, 103>>>>,
      <<2, 275,
        <<206, 200, 130, 82, 162, 16, 199, 228, 225, 104, 253, 122, 102, 208, 246, 28,
          228, 140, 84, 235, 153, 245, 191, 22, 222, 13, 100, 132, 37, 236, 68, 78>>>>,
      <<35, 275,
        <<144, 120, 119, 109, 154, 94, 117, 192, 86, 60, 34, 210, 191, 124, 247, 33,
          9, 239, 30, 221, 143, 86, 241, 88, 158, 84, 33, 187, 226, 11, 189, 34>>>>,
      <<36, 275,
        <<164, 137, 239, 105, 93, 131, 247, 237, 75, 216, 89, 59, 242, 207, 183, 93,
          232, 31, 59, 146, 57, 182, 98, 86, 212, 128, 75, 165, 108, 17, 99, 142>>>>,
      <<207, 275,
        <<68, 195, 108, 179, 102, 177, 240, 88, 47, 207, 135, 118, 93, 235, 77, 235,
          211, 59, 111, 143, 3, 218, 7, 208, 120, 59, 82, 237, 233, 41, 202, 78>>>>,
      <<214, 275,
        <<248, 182, 55, 55, 246, 161, 70, 40, 244, 180, 80, 120, 7, 246, 5, 4,
          205, 177, 30, 226, 125, 64, 38, 126, 151, 9, 159, 196, 63, 127, 195, 82>>>>,
      <<233, 275,
        <<34, 248, 240, 9, 145, 242, 140, 155, 120, 128, 245, 103, 128, 217, 167, 6,
          241, 133, 199, 240, 36, 124, 71, 99, 127, 144, 132, 45, 52, 26, 23, 121>>>>,
      <<269, 275,
        <<133, 121, 184, 33, 71, 140, 246, 228, 207, 1, 179, 89, 89, 197, 20, 2,
          48, 138, 202, 207, 141, 118, 21, 92, 189, 18, 5, 171, 195, 247, 25, 39>>>>,
      <<275, 2,
        <<80, 92, 74, 230, 144, 119, 136, 234, 6, 112, 248, 97, 47, 129, 22, 99,
          168, 36, 180, 239, 149, 86, 198, 168, 11, 174, 125, 204, 57, 143, 244, 95>>>>,
      <<275, 36,
        <<128, 120, 171, 65, 248, 120, 122, 234, 21, 99, 81, 181, 75, 163, 73, 28,
          210, 196, 184, 207, 43, 238, 129, 232, 189, 64, 142, 7, 12, 160, 246, 127>>>>,
      <<275, 38,
        <<13, 122, 124, 31, 200, 34, 155, 190, 143, 110, 23, 187, 134, 242, 184, 14,
          190, 143, 140, 176, 187, 141, 174, 125, 210, 87, 46, 175, 83, 64, 129, 168>>>>,
      <<275, 211,
        <<59, 210, 1, 16, 197, 117, 132, 150, 230, 51, 39, 100, 1, 214, 166, 241,
          22, 197, 71, 201, 253, 80, 178, 54, 19, 203, 81, 136, 217, 89, 252, 150>>>>,
      <<275, 218,
        <<89, 248, 213, 44, 152, 181, 36, 19, 11, 53, 35, 239, 44, 165, 78, 203,
          168, 154, 41, 156, 10, 161, 97, 84, 78, 84, 87, 149, 143, 56, 116, 128>>>>,
      <<275, 240,
        <<161, 45, 216, 177, 118, 55, 7, 85, 154, 42, 241, 188, 61, 200, 10, 60,
          146, 4, 104, 92, 253, 145, 96, 225, 100, 235, 254, 191, 204, 160, 197, 19>>>>,
      <<276, 38,
        <<41, 179, 144, 174, 46, 49, 89, 85, 126, 174, 66, 57, 150, 83, 20, 185,
          192, 99, 208, 223, 90, 69, 193, 33, 180, 168, 189, 65, 61, 247, 229, 184>>>>,
      <<277, 1,
        <<129, 24, 182, 67, 131, 145, 109, 31, 192, 78, 83, 107, 23, 2, 207, 229,
          59, 30, 226, 41, 190, 159, 79, 71, 210, 182, 95, 100, 238, 91, 136, 85>>>>,
      <<277, 2,
        <<142, 108, 71, 81, 119, 210, 158, 107, 120, 121, 9, 221, 195, 6, 160, 242,
          222, 239, 222, 10, 40, 219, 233, 86, 69, 88, 179, 198, 253, 146, 157, 183>>>>,
      <<277, 33,
        <<216, 73, 54, 7, 140, 91, 213, 8, 58, 108, 253, 249, 191, 135, 207, 41,
          204, 67, 52, 168, 222, 20, 236, 220, 115, 33, 107, 90, 126, 99, 133, 128>>>>,
      <<277, 34,
        <<164, 190, 203, 179, 209, 116, 171, 156, 103, 143, 156, 49, 244, 2, 237, 72,
          161, 50, 166, 135, 213, 12, 193, 224, 151, 192, 251, 23, 138, 45, 61, 234>>>>,
      <<277, 35,
        <<59, 92, 69, 242, 70, 2, 28, 71, 225, 43, 143, 216, 56, 93, 59, 164,
          223, 97, 131, 12, 14, 86, 4, 171, 226, 113, 230, 113, 35, 72, 186, 138>>>>,
      <<277, 38,
        <<168, 226, 17, 117, 51, 225, 152, 178, 83, 156, 131, 72, 213, 85, 129, 133,
          66, 62, 43, 243, 184, 62, 152, 238, 35, 132, 152, 135, 164, 81, 227, 90>>>>,
      <<277, 274,
        <<123, 63, 8, 227, 201, 97, 19, 200, 175, 133, 250, 196, 144, 154, 202, 113,
          218, 87, 210, 5, 119, 207, 226, 66, 186, 240, 235, 101, 2, 32, 203, 105>>>>,
      <<1, 278,
        <<216, 17, 178, 3, 175, 0, 207, 164, 66, 91, 173, 127, 220, 183, 49, 88,
          29, 204, 69, 181, 246, 137, 199, 208, 242, 56, 143, 194, 166, 236, 107, 124>>>>,
      <<2, 278,
        <<215, 32, 56, 28, 207, 197, 240, 62, 11, 212, 56, 42, 240, 209, 168, 173,
          106, 93, 49, 249, 216, 25, 76, 126, 98, 223, 151, 144, 166, 190, 149, 175>>>>,
      <<33, 278,
        <<127, 238, 147, 75, 189, 153, 230, 61, 109, 255, 244, 122, 230, 93, 159, 120,
          131, 143, 222, 47, 73, 10, 249, 79, 139, 22, 92, 21, 125, 4, 190, 165>>>>,
      <<34, 278,
        <<229, 48, 90, 205, 81, 112, 98, 50, 238, 235, 6, 29, 87, 43, 61, 22,
          32, 146, 192, 100, 109, 119, 107, 28, 99, 133, 210, 144, 188, 242, 170, 169>>>>,
      <<35, 278,
        <<50, 72, 63, 7, 48, 160, 115, 37, 101, 9, 28, 78, 122, 44, 45, 155,
          255, 99, 253, 177, 3, 234, 119, 236, 23, 69, 23, 204, 59, 189, 138, 254>>>>,
      <<36, 278,
        <<119, 238, 70, 141, 220, 194, 75, 35, 156, 219, 99, 100, 218, 73, 190, 67,
          246, 100, 250, 53, 244, 51, 118, 94, 88, 8, 165, 130, 168, 116, 35, 5>>>>,
      <<38, 278,
        <<206, 145, 129, 17, 218, 121, 178, 152, 30, 23, 219, 193, 10, 64, 46, 119,
          149, 169, 82, 192, 187, 163, 25, 234, 109, 182, 250, 119, 197, 196, 0, 178>>>>,
      <<252, 278,
        <<127, 107, 145, 208, 253, 67, 172, 169, 217, 104, 178, 18, 11, 186, 117, 174,
          142, 16, 76, 6, 7, 161, 228, 52, 249, 144, 70, 40, 215, 174, 107, 111>>>>,
      <<260, 278,
        <<40, 25, 97, 210, 56, 114, 233, 3, 7, 151, 89, 154, 201, 210, 74, 168,
          73, 24, 38, 245, 194, 212, 128, 98, 3, 186, 211, 104, 62, 233, 236, 118>>>>,
      <<274, 278,
        <<151, 96, 221, 132, 174, 65, 125, 110, 116, 32, 87, 119, 124, 32, 155, 84,
          93, 224, 149, 241, 175, 27, 78, 73, 90, 49, 185, 4, 11, 127, 122, 102>>>>,
      <<275, 278,
        <<190, 124, 166, 67, 14, 155, 232, 28, 207, 67, 31, 251, 255, 241, 221, 130,
          69, 184, 177, 162, 88, 225, 61, 95, 77, 224, 56, 149, 18, 104, 142, 61>>>>,
      <<278, 38,
        <<44, 126, 82, 50, 112, 181, 8, 8, 101, 241, 180, 221, 126, 218, 5, 236,
          132, 192, 50, 116, 181, 75, 105, 119, 213, 208, 182, 247, 77, 78, 48, 193>>>>,
      <<290, 38,
        <<127, 85, 196, 18, 91, 122, 68, 219, 36, 165, 203, 45, 249, 190, 165, 21,
          155, 137, 226, 229, 106, 77, 4, 94, 229, 254, 238, 158, 60, 105, 90, 194>>>>,
      <<1, 292,
        <<181, 132, 54, 78, 186, 230, 11, 176, 228, 99, 73, 184, 23, 110, 207, 195,
          183, 52, 63, 7, 153, 211, 76, 135, 37, 147, 209, 244, 251, 148, 50, 125>>>>,
      <<2, 292,
        <<35, 76, 219, 240, 120, 105, 28, 106, 152, 219, 84, 128, 54, 175, 115, 76,
          136, 228, 246, 82, 240, 92, 112, 138, 14, 13, 197, 105, 248, 105, 132, 96>>>>,
      <<3, 292,
        <<86, 0, 131, 30, 36, 253, 71, 1, 121, 39, 255, 48, 248, 218, 120, 3,
          241, 82, 147, 253, 219, 51, 108, 43, 125, 44, 139, 176, 178, 195, 35, 19>>>>,
      <<33, 292,
        <<224, 172, 211, 70, 212, 53, 25, 48, 87, 199, 84, 97, 102, 203, 149, 133,
          149, 175, 213, 219, 255, 200, 205, 45, 173, 15, 61, 206, 6, 243, 178, 35>>>>,
      <<34, 292,
        <<225, 225, 20, 52, 200, 176, 131, 13, 188, 114, 166, 100, 244, 184, 161, 253,
          237, 124, 109, 143, 146, 24, 35, 58, 83, 19, 158, 155, 28, 136, 241, 108>>>>,
      <<36, 292,
        <<245, 184, 90, 169, 139, 87, 21, 25, 149, 168, 200, 145, 142, 232, 122, 135,
          96, 161, 57, 132, 96, 222, 174, 61, 147, 217, 155, 34, 30, 253, 35, 226>>>>,
      <<39, 292,
        <<151, 201, 244, 39, 81, 185, 143, 110, 150, 34, 90, 152, 29, 229, 111, 179,
          86, 140, 218, 251, 214, 85, 170, 174, 53, 13, 176, 252, 114, 37, 189, 193>>>>,
      <<292, 39,
        <<171, 128, 208, 91, 141, 75, 215, 60, 15, 112, 60, 148, 158, 163, 107, 178,
          5, 12, 208, 172, 170, 121, 228, 62, 212, 26, 108, 168, 170, 212, 29, 122>>>>,
      <<238, 298,
        <<133, 180, 141, 107, 251, 70, 110, 246, 106, 217, 228, 102, 11, 41, 222, 205,
          179, 34, 29, 245, 58, 72, 155, 223, 246, 95, 152, 61, 115, 181, 119, 234>>>>,
      <<250, 298,
        <<65, 108, 151, 32, 95, 103, 92, 34, 14, 149, 42, 145, 217, 115, 131, 248,
          138, 163, 123, 50, 195, 221, 237, 142, 26, 105, 35, 184, 19, 158, 51, 92>>>>,
      <<258, 298,
        <<206, 61, 120, 105, 79, 28, 71, 205, 206, 178, 233, 152, 67, 246, 132, 26,
          250, 147, 58, 88, 217, 120, 60, 63, 153, 173, 238, 10, 228, 60, 96, 83>>>>,
      <<1, 299,
        <<248, 143, 167, 34, 103, 2, 0, 21, 76, 174, 135, 208, 126, 1, 152, 9,
          133, 56, 182, 31, 171, 217, 77, 241, 47, 61, 76, 26, 109, 172, 61, 61>>>>,
      <<36, 299,
        <<102, 211, 182, 22, 25, 135, 76, 92, 29, 212, 30, 2, 128, 214, 137, 6,
          122, 34, 174, 73, 121, 76, 67, 96, 231, 178, 83, 44, 53, 44, 99, 118>>>>,
      <<38, 299,
        <<148, 187, 8, 14, 208, 83, 103, 171, 199, 192, 79, 1, 212, 188, 71, 12,
          19, 59, 64, 123, 39, 214, 178, 46, 96, 251, 8, 125, 226, 31, 152, 188>>>>,
      <<42, 299,
        <<46, 242, 14, 168, 157, 203, 172, 99, 220, 226, 78, 37, 239, 205, 222, 245,
          250, 211, 79, 130, 101, 41, 239, 55, 128, 48, 72, 59, 239, 120, 165, 249>>>>,
      <<211, 299,
        <<94, 91, 243, 27, 255, 118, 73, 225, 173, 113, 189, 159, 9, 245, 170, 95,
          196, 162, 62, 121, 69, 214, 99, 196, 251, 124, 13, 217, 80, 120, 119, 54>>>>,
      <<218, 299,
        <<190, 233, 216, 233, 112, 164, 146, 84, 124, 212, 155, 27, 94, 55, 140, 221,
          111, 145, 89, 177, 246, 216, 7, 110, 75, 50, 35, 222, 155, 218, 217, 170>>>>,
      <<232, 299,
        <<143, 95, 178, 176, 175, 84, 31, 199, 207, 45, 204, 105, 61, 87, 88, 129,
          49, 193, 225, 17, 247, 182, 122, 4, 241, 200, 163, 71, 62, 210, 229, 134>>>>,
      <<240, 299,
        <<198, 51, 45, 96, 18, 171, 10, 12, 255, 83, 12, 8, 229, 21, 227, 219,
          98, 27, 99, 132, 55, 124, 51, 102, 19, 165, 161, 183, 34, 174, 129, 36>>>>,
      <<299, 2,
        <<236, 111, 98, 200, 6, 225, 229, 18, 57, 209, 46, 21, 45, 31, 177, 169,
          66, 106, 60, 2, 129, 42, 91, 83, 111, 167, 85, 252, 16, 41, 153, 94>>>>,
      <<299, 3,
        <<170, 16, 109, 184, 159, 180, 7, 38, 18, 120, 74, 88, 57, 175, 174, 180,
          143, 184, 77, 115, 10, 43, 72, 56, 180, 97, 232, 6, 50, 36, 187, 186>>>>,
      <<299, 35,
        <<10, 196, 42, 236, 169, 105, 193, 46, 198, 162, 53, 105, 4, 225, 233, 32,
          21, 63, 1, 14, 92, 214, 77, 10, 136, 79, 130, 155, 6, 127, 214, 4>>>>,
      <<299, 36,
        <<208, 226, 43, 24, 98, 104, 34, 250, 40, 170, 35, 139, 208, 68, 85, 47,
          178, 97, 98, 51, 82, 216, 240, 217, 18, 135, 99, 78, 26, 25, 82, 165>>>>,
      <<299, 39,
        <<146, 226, 59, 127, 10, 71, 142, 235, 92, 137, 66, 209, 26, 146, 56, 178,
          185, 35, 188, 207, 38, 30, 28, 236, 14, 64, 4, 112, 164, 64, 87, 105>>>>,
      <<299, 40,
        <<136, 228, 198, 178, 34, 48, 194, 89, 244, 101, 221, 44, 159, 116, 229, 241,
          250, 218, 25, 3, 49, 82, 221, 38, 69, 110, 87, 135, 139, 80, 197, 131>>>>,
      <<299, 43,
        <<80, 154, 95, 26, 182, 3, 188, 25, 222, 9, 111, 14, 104, 169, 147, 9,
          22, 165, 59, 239, 179, 199, 243, 3, 183, 13, 218, 16, 67, 71, 189, 174>>>>,
      <<299, 207,
        <<172, 64, 252, 245, 233, 167, 213, 152, 49, 90, 128, 250, 113, 20, 40, 3,
          247, 66, 109, 97, 103, 174, 224, 185, 113, 231, 87, 239, 41, 74, 180, 220>>>>,
      <<299, 212,
        <<235, 184, 171, 182, 215, 46, 167, 148, 168, 117, 15, 161, 71, 174, 255, 227,
          33, 17, 198, 167, 44, 248, 249, 150, 84, 26, 34, 157, 179, 252, 4, 104>>>>,
      <<299, 214,
        <<149, 173, 215, 254, 162, 137, 227, 9, 49, 9, 35, 14, 132, 232, 159, 169,
          86, 131, 0, 0, 209, 128, 239, 79, 121, 174, 152, 234, 211, 7, 222, 172>>>>,
      <<299, 219,
        <<54, 235, 170, 120, 236, 185, 144, 108, 139, 90, 29, 228, 206, 47, 116, 130,
          40, 78, 46, 14, 108, 34, 65, 17, 208, 85, 233, 186, 69, 234, 138, 122>>>>,
      <<299, 233,
        <<168, 202, 104, 12, 72, 126, 17, 157, 248, 147, 105, 249, 240, 217, 123, 67,
          237, 151, 110, 190, 150, 111, 93, 193, 210, 133, 16, 140, 71, 69, 213, 44>>>>,
      <<299, 241,
        <<2, 78, 26, 124, 217, 44, 23, 74, 91, 137, 26, 200, 184, 191, 137, 239,
          24, 2, 48, 228, 194, 200, 208, 221, 122, 0, 23, 153, 18, 119, 50, 81>>>>,
      <<299, 292,
        <<249, 19, 160, 249, 250, 187, 62, 122, 131, 244, 131, 11, 206, 214, 203, 44,
          91, 224, 45, 151, 115, 96, 219, 119, 36, 66, 242, 225, 93, 238, 249, 213>>>>,
      <<232, 300,
        <<206, 114, 228, 142, 237, 164, 247, 204, 255, 241, 188, 1, 226, 173, 172, 230,
          98, 204, 208, 45, 248, 96, 34, 228, 67, 59, 47, 173, 66, 164, 19, 154>>>>,
      <<303, 1,
        <<153, 18, 143, 146, 103, 74, 2, 61, 137, 174, 191, 142, 17, 11, 194, 6,
          184, 104, 119, 42, 34, 39, 155, 157, 98, 46, 240, 198, 154, 227, 194, 61>>>>,
      <<303, 2,
        <<224, 146, 249, 151, 35, 35, 214, 241, 119, 120, 231, 116, 128, 163, 191, 87,
          136, 184, 123, 173, 225, 32, 109, 77, 106, 33, 138, 151, 124, 14, 221, 58>>>>,
      <<303, 3,
        <<81, 84, 89, 112, 202, 49, 180, 97, 144, 233, 28, 91, 159, 131, 209, 196,
          3, 45, 218, 238, 76, 50, 98, 209, 82, 69, 184, 130, 189, 150, 246, 73>>>>,
      <<303, 33,
        <<96, 174, 151, 161, 72, 13, 46, 20, 22, 11, 15, 114, 241, 86, 37, 158,
          87, 116, 145, 64, 34, 190, 102, 199, 84, 194, 23, 126, 165, 149, 128, 228>>>>,
      <<303, 34,
        <<245, 43, 224, 110, 157, 23, 50, 56, 111, 32, 92, 196, 131, 99, 9, 164,
          21, 168, 102, 136, 230, 137, 81, 18, 206, 144, 84, 76, 89, 190, 46, 254>>>>,
      <<303, 36,
        <<243, 51, 51, 161, 246, 8, 234, 94, 202, 215, 38, 238, 201, 137, 147, 165,
          16, 87, 56, 244, 107, 184, 48, 113, 159, 128, 236, 172, 2, 70, 20, 8>>>>,
      <<303, 39,
        <<193, 162, 157, 114, 194, 116, 217, 88, 237, 84, 95, 220, 16, 126, 132, 44,
          121, 164, 120, 177, 41, 150, 168, 109, 146, 86, 174, 95, 112, 172, 94, 83>>>>,
      <<303, 299,
        <<221, 214, 24, 189, 100, 183, 183, 198, 50, 158, 39, 246, 230, 64, 11, 15,
          91, 233, 224, 201, 179, 35, 128, 6, 34, 15, 18, 129, 159, 85, 210, 139>>>>,
      <<1, 304,
        <<41, 230, 173, 48, 87, 103, 210, 144, 53, 49, 94, 244, 171, 86, 42, 252,
          117, 196, 152, 57, 35, 63, 241, 140, 119, 53, 245, 53, 229, 240, 41, 246>>>>,
      <<2, 304,
        <<25, 59, 117, 185, 86, 0, 36, 146, 29, 252, 118, 90, 4, 132, 123, 221,
          23, 241, 164, 32, 204, 47, 245, 146, 31, 43, 150, 191, 100, 254, 77, 105>>>>,
      <<3, 304,
        <<143, 242, 176, 171, 175, 17, 109, 110, 110, 41, 236, 53, 226, 188, 67, 152,
          91, 176, 142, 209, 154, 80, 160, 131, 209, 109, 17, 69, 105, 44, 97, 110>>>>,
      <<33, 304,
        <<39, 160, 48, 210, 13, 208, 121, 139, 135, 216, 3, 122, 90, 247, 212, 184,
          21, 1, 249, 206, 81, 177, 24, 132, 72, 145, 200, 127, 108, 242, 203, 87>>>>,
      <<34, 304,
        <<17, 158, 139, 254, 143, 251, 226, 170, 179, 254, 237, 251, 239, 48, 91, 74,
          110, 54, 121, 36, 31, 200, 217, 187, 38, 204, 83, 219, 44, 162, 34, 244>>>>,
      <<36, 304,
        <<33, 199, 224, 138, 2, 227, 3, 212, 33, 0, 148, 113, 111, 223, 115, 51,
          145, 150, 49, 230, 168, 198, 219, 197, 240, 184, 182, 15, 197, 133, 28, 99>>>>,
      <<39, 304,
        <<84, 247, 151, 105, 11, 124, 41, 189, 151, 30, 169, 41, 158, 208, 229, 83,
          119, 11, 198, 35, 78, 96, 202, 14, 237, 92, 41, 195, 181, 212, 214, 226>>>>,
      <<299, 304,
        <<55, 46, 149, 53, 181, 51, 191, 242, 47, 104, 244, 132, 194, 223, 183, 174,
          112, 205, 153, 159, 91, 113, 173, 152, 153, 143, 210, 241, 132, 158, 74, 169>>>>,
      <<313, 1,
        <<5, 186, 148, 11, 79, 156, 20, 79, 72, 110, 185, 102, 165, 28, 96, 168,
          97, 59, 177, 82, 174, 73, 183, 141, 164, 127, 24, 149, 75, 141, 126, 67>>>>,
      <<313, 2,
        <<234, 217, 104, 209, 109, 151, 146, 42, 168, 117, 93, 181, 223, 227, 115, 68,
          141, 41, 195, 109, 45, 201, 226, 93, 24, 58, 244, 173, 152, 133, 5, 72>>>>,
      <<313, 3,
        <<85, 33, 193, 58, 194, 222, 100, 200, 81, 25, 193, 45, 109, 145, 67, 59,
          116, 232, 105, 233, 23, 128, 37, 93, 71, 230, 226, 94, 147, 218, 4, 82>>>>,
      <<313, 33,
        <<13, 48, 96, 66, 130, 67, 134, 199, 185, 155, 95, 71, 233, 198, 197, 209,
          140, 117, 147, 213, 57, 101, 187, 51, 108, 216, 48, 165, 25, 53, 98, 253>>>>,
      <<313, 34,
        <<217, 253, 200, 118, 18, 54, 139, 237, 213, 23, 28, 79, 114, 248, 73, 53,
          132, 103, 249, 124, 224, 244, 120, 124, 69, 138, 62, 207, 105, 153, 87, 9>>>>,
      <<313, 36,
        <<185, 58, 171, 17, 62, 68, 195, 86, 122, 223, 138, 234, 63, 38, 190, 142,
          148, 89, 241, 143, 233, 171, 111, 137, 0, 218, 238, 164, 152, 47, 222, 31>>>>,
      <<313, 40,
        <<218, 241, 7, 247, 222, 222, 206, 243, 81, 237, 157, 237, 122, 181, 172, 89,
          33, 41, 136, 143, 92, 48, 255, 83, 63, 228, 92, 38, 165, 244, 145, 0>>>>,
      <<1, 314,
        <<148, 196, 195, 171, 75, 214, 144, 2, 109, 219, 101, 85, 157, 84, 0, 90,
          14, 11, 68, 5, 182, 173, 193, 26, 61, 82, 24, 220, 137, 129, 104, 143>>>>,
      <<2, 314,
        <<86, 51, 193, 96, 8, 211, 5, 170, 224, 236, 74, 41, 224, 32, 168, 81,
          56, 219, 89, 242, 17, 145, 126, 150, 20, 25, 107, 179, 164, 46, 194, 184>>>>,
      <<3, 314,
        <<100, 237, 179, 36, 172, 36, 45, 50, 198, 71, 179, 188, 54, 139, 71, 230,
          109, 121, 52, 209, 13, 104, 12, 227, 169, 129, 188, 96, 95, 162, 22, 248>>>>,
      <<33, 314,
        <<217, 51, 146, 48, 163, 157, 41, 238, 206, 218, 18, 203, 59, 20, 222, 221,
          221, 16, 197, 141, 83, 38, 195, 78, 162, 230, 62, 46, 127, 246, 77, 216>>>>,
      <<34, 314,
        <<136, 204, 239, 164, 197, 136, 196, 178, 41, 202, 2, 213, 37, 28, 31, 75,
          175, 41, 4, 168, 215, 234, 138, 76, 59, 179, 184, 246, 59, 226, 236, 242>>>>,
      <<35, 314,
        <<65, 33, 150, 44, 161, 225, 66, 221, 166, 110, 47, 147, 84, 96, 30, 252,
          7, 40, 111, 221, 199, 81, 77, 106, 174, 239, 114, 56, 166, 2, 214, 74>>>>,
      <<36, 314,
        <<61, 198, 78, 214, 203, 2, 170, 98, 219, 94, 75, 22, 249, 70, 147, 63,
          57, 41, 129, 115, 103, 40, 63, 78, 80, 229, 124, 171, 100, 164, 92, 45>>>>,
      <<40, 314,
        <<194, 233, 136, 107, 240, 34, 203, 251, 119, 178, 148, 172, 107, 50, 250, 240,
          233, 94, 146, 3, 242, 14, 85, 229, 213, 105, 192, 90, 211, 51, 160, 201>>>>,
      <<252, 314,
        <<2, 83, 185, 229, 237, 23, 50, 10, 33, 207, 2, 64, 102, 142, 242, 183,
          168, 66, 171, 54, 194, 222, 25, 23, 42, 177, 124, 50, 177, 220, 17, 252>>>>,
      <<260, 314,
        <<179, 251, 17, 191, 170, 251, 165, 156, 244, 7, 85, 230, 184, 230, 95, 135,
          220, 220, 190, 236, 184, 147, 72, 170, 216, 195, 211, 7, 28, 237, 86, 127>>>>,
      <<1, 319,
        <<197, 115, 48, 35, 193, 227, 170, 199, 65, 178, 205, 128, 242, 83, 115, 194,
          226, 62, 22, 103, 129, 203, 79, 146, 179, 46, 53, 98, 168, 98, 8, 187>>>>,
      <<2, 319,
        <<191, 49, 194, 137, 54, 162, 233, 122, 221, 81, 205, 86, 130, 85, 191, 71,
          164, 32, 16, 152, 15, 248, 231, 28, 60, 249, 118, 170, 86, 51, 204, 201>>>>,
      <<35, 319,
        <<157, 253, 129, 148, 55, 188, 2, 166, 147, 243, 96, 206, 13, 29, 225, 131,
          8, 27, 115, 171, 82, 239, 19, 99, 110, 222, 70, 104, 71, 176, 85, 98>>>>,
      <<37, 319,
        <<250, 204, 224, 222, 184, 98, 85, 244, 132, 239, 54, 109, 30, 197, 64, 1,
          72, 207, 185, 191, 150, 226, 66, 160, 26, 35, 223, 198, 131, 130, 154, 187>>>>,
      <<41, 319,
        <<153, 192, 154, 238, 110, 76, 230, 65, 145, 254, 213, 254, 14, 249, 78, 183,
          27, 250, 84, 156, 3, 32, 172, 83, 233, 106, 192, 4, 139, 29, 138, 166>>>>,
      <<210, 319,
        <<11, 161, 69, 90, 169, 199, 85, 224, 188, 142, 24, 33, 101, 10, 112, 67,
          217, 239, 207, 134, 196, 239, 58, 239, 216, 94, 27, 96, 95, 101, 208, 173>>>>,
      <<217, 319,
        <<37, 232, 177, 220, 188, 76, 10, 6, 102, 247, 255, 102, 153, 115, 220, 117,
          137, 210, 147, 125, 83, 28, 147, 157, 192, 34, 23, 173, 224, 246, 208, 50>>>>,
      <<226, 319,
        <<162, 225, 205, 105, 78, 233, 148, 100, 208, 105, 101, 228, 165, 39, 221, 228,
          14, 95, 8, 120, 191, 200, 200, 221, 49, 144, 80, 15, 133, 114, 125, 152>>>>,
      <<232, 319,
        <<128, 81, 169, 156, 162, 216, 203, 58, 29, 240, 111, 201, 63, 157, 45, 142,
          100, 180, 174, 30, 217, 68, 199, 78, 133, 231, 25, 135, 119, 234, 251, 121>>>>,
      <<319, 1,
        <<213, 234, 72, 68, 7, 60, 236, 251, 9, 72, 123, 78, 9, 195, 87, 92,
          109, 41, 242, 71, 137, 222, 27, 82, 225, 217, 158, 92, 159, 152, 101, 98>>>>,
      <<319, 3,
        <<28, 84, 220, 233, 254, 8, 249, 136, 45, 76, 103, 148, 0, 208, 87, 11,
          51, 54, 145, 101, 5, 100, 5, 220, 241, 99, 92, 220, 75, 14, 28, 225>>>>,
      <<319, 37,
        <<95, 176, 141, 24, 55, 178, 219, 130, 92, 31, 162, 222, 185, 65, 140, 248,
          11, 237, 68, 148, 80, 99, 58, 89, 60, 236, 10, 215, 192, 32, 216, 46>>>>,
      <<319, 38,
        <<224, 56, 214, 23, 200, 165, 137, 163, 61, 124, 53, 107, 62, 134, 14, 100,
          182, 240, 144, 79, 153, 98, 94, 237, 82, 30, 84, 39, 168, 112, 33, 199>>>>,
      <<319, 39,
        <<112, 36, 24, 158, 182, 208, 71, 113, 69, 227, 29, 69, 179, 182, 117, 152,
          51, 28, 55, 148, 159, 233, 225, 141, 97, 1, 199, 245, 64, 50, 137, 156>>>>,
      <<319, 40,
        <<141, 113, 118, 36, 111, 172, 20, 113, 12, 171, 26, 166, 101, 92, 9, 40,
          212, 64, 139, 105, 42, 169, 192, 216, 112, 239, 166, 178, 59, 133, 29, 250>>>>,
      <<319, 43,
        <<191, 45, 160, 197, 211, 227, 18, 214, 189, 59, 24, 94, 13, 162, 77, 214,
          126, 38, 171, 17, 142, 45, 255, 176, 239, 49, 140, 215, 130, 11, 124, 21>>>>,
      <<319, 208,
        <<188, 28, 71, 240, 251, 234, 121, 162, 214, 205, 136, 23, 187, 27, 49, 37,
          12, 45, 5, 91, 52, 153, 180, 168, 206, 235, 236, 105, 166, 235, 55, 221>>>>,
      <<319, 212,
        <<10, 116, 219, 234, 137, 163, 182, 69, 28, 190, 10, 240, 167, 133, 222, 65,
          33, 198, 222, 7, 194, 249, 251, 235, 135, 209, 197, 51, 177, 207, 233, 51>>>>,
      <<319, 215,
        <<241, 144, 16, 79, 240, 153, 7, 42, 121, 129, 130, 45, 103, 236, 31, 222,
          34, 177, 114, 55, 52, 98, 173, 21, 166, 41, 14, 105, 169, 117, 219, 11>>>>,
      <<319, 219,
        <<89, 84, 11, 50, 151, 40, 58, 111, 195, 137, 50, 125, 133, 54, 84, 155,
          140, 26, 246, 8, 120, 216, 222, 43, 32, 69, 27, 41, 210, 110, 69, 178>>>>,
      <<319, 222,
        <<194, 112, 69, 60, 108, 227, 80, 136, 184, 131, 67, 63, 199, 251, 69, 48,
          12, 73, 233, 44, 64, 93, 66, 96, 86, 70, 175, 185, 25, 124, 236, 86>>>>,
      <<319, 228,
        <<103, 216, 227, 71, 4, 78, 161, 89, 14, 104, 36, 190, 46, 65, 177, 24,
          237, 9, 54, 99, 227, 52, 129, 35, 121, 97, 31, 4, 51, 24, 166, 148>>>>,
      <<319, 314,
        <<15, 200, 60, 149, 157, 238, 23, 129, 108, 114, 254, 182, 131, 221, 217, 163,
          10, 174, 121, 97, 117, 9, 73, 21, 98, 249, 51, 146, 67, 185, 34, 173>>>>,
      <<1, 320,
        <<5, 3, 73, 53, 208, 38, 94, 215, 168, 213, 110, 137, 26, 3, 253, 50,
          153, 236, 246, 203, 210, 207, 238, 233, 207, 216, 91, 55, 206, 97, 92, 114>>>>,
      <<2, 320,
        <<185, 176, 91, 83, 60, 125, 189, 40, 31, 23, 186, 186, 191, 205, 46, 194,
          229, 170, 179, 248, 65, 37, 171, 181, 166, 50, 136, 90, 185, 241, 122, 142>>>>,
      <<35, 320,
        <<41, 84, 212, 67, 60, 120, 171, 5, 6, 68, 239, 67, 155, 2, 11, 169,
          218, 103, 70, 213, 156, 135, 31, 245, 133, 73, 141, 167, 180, 37, 180, 167>>>>,
      <<36, 320,
        <<49, 251, 86, 136, 24, 62, 165, 11, 9, 12, 140, 21, 23, 229, 77, 23,
          69, 30, 172, 222, 136, 239, 169, 255, 71, 236, 244, 251, 49, 173, 195, 22>>>>,
      <<39, 320,
        <<45, 13, 242, 141, 21, 204, 85, 156, 31, 79, 123, 120, 67, 206, 83, 190,
          161, 117, 24, 176, 230, 91, 196, 9, 171, 187, 228, 112, 173, 241, 166, 225>>>>,
      <<207, 320,
        <<144, 19, 250, 205, 72, 229, 254, 182, 253, 59, 215, 239, 123, 213, 253, 250,
          147, 184, 203, 103, 166, 241, 222, 141, 252, 41, 48, 144, 100, 153, 92, 82>>>>,
      <<214, 320,
        <<56, 113, 196, 74, 168, 49, 200, 109, 222, 144, 21, 154, 158, 200, 111, 55,
          107, 19, 228, 210, 140, 201, 203, 229, 59, 218, 83, 237, 251, 170, 228, 67>>>>,
      <<233, 320,
        <<234, 240, 52, 32, 97, 170, 231, 179, 106, 184, 184, 157, 239, 139, 170, 225,
          78, 174, 115, 97, 206, 115, 247, 162, 58, 115, 139, 139, 223, 39, 51, 50>>>>,
      <<313, 320,
        <<83, 226, 240, 92, 144, 14, 163, 212, 83, 199, 132, 74, 9, 129, 229, 20,
          47, 173, 148, 50, 92, 60, 21, 171, 60, 155, 10, 163, 201, 9, 72, 171>>>>,
      <<320, 2,
        <<255, 209, 146, 127, 191, 68, 160, 28, 18, 203, 209, 221, 8, 121, 199, 88,
          40, 195, 16, 16, 169, 68, 244, 180, 51, 249, 228, 119, 131, 235, 88, 253>>>>,
      <<320, 3,
        <<144, 13, 76, 120, 96, 15, 46, 154, 152, 193, 215, 117, 234, 36, 19, 153,
          60, 36, 151, 145, 172, 137, 134, 75, 77, 210, 37, 211, 192, 215, 243, 223>>>>,
      <<320, 37,
        <<40, 128, 104, 249, 57, 221, 144, 244, 89, 6, 254, 191, 231, 45, 9, 158,
          133, 144, 179, 51, 235, 34, 45, 106, 109, 170, 144, 14, 180, 154, 155, 5>>>>,
      <<320, 38,
        <<188, 11, 147, 56, 136, 129, 152, 120, 212, 241, 236, 0, 108, 208, 16, 100,
          72, 119, 245, 13, 201, 50, 203, 166, 21, 27, 79, 71, 178, 168, 247, 174>>>>,
      <<320, 39,
        <<144, 4, 195, 120, 151, 12, 36, 40, 137, 193, 27, 244, 129, 60, 151, 132,
          163, 112, 29, 236, 14, 93, 201, 235, 64, 235, 30, 50, 56, 211, 182, 33>>>>,
      <<320, 40,
        <<48, 244, 98, 251, 176, 35, 121, 235, 127, 127, 221, 76, 53, 147, 7, 187,
          244, 233, 152, 2, 37, 44, 148, 161, 5, 185, 159, 181, 196, 66, 26, 37>>>>,
      <<320, 43,
        <<38, 193, 120, 148, 154, 112, 40, 101, 178, 75, 153, 253, 248, 72, 86, 95,
          154, 72, 234, 54, 139, 244, 121, 30, 126, 161, 164, 95, 99, 17, 131, 165>>>>,
      <<320, 208,
        <<143, 152, 161, 21, 95, 219, 145, 11, 14, 250, 237, 61, 184, 93, 117, 71,
          147, 139, 77, 125, 134, 66, 133, 23, 255, 211, 87, 6, 210, 111, 58, 126>>>>,
      <<320, 212,
        <<30, 65, 181, 189, 38, 44, 60, 148, 233, 46, 102, 43, 101, 86, 201, 79,
          177, 109, 43, 174, 87, 116, 217, 221, 41, 13, 13, 192, 17, 216, 84, 11>>>>,
      <<320, 215,
        <<97, 47, 144, 165, 94, 229, 250, 16, 73, 30, 80, 26, 255, 134, 12, 113,
          230, 67, 191, 211, 78, 72, 157, 182, 109, 146, 147, 187, 32, 5, 13, 27>>>>,
      <<320, 219,
        <<150, 136, 141, 124, 188, 93, 175, 222, 39, 107, 166, 184, 87, 61, 64, 59,
          31, 250, 57, 223, 99, 49, 130, 83, 25, 105, 105, 165, 236, 139, 89, 21>>>>,
      <<320, 234,
        <<143, 99, 147, 83, 113, 96, 8, 93, 133, 56, 171, 216, 28, 112, 9, 112,
          184, 53, 65, 161, 105, 132, 252, 34, 210, 14, 122, 177, 54, 241, 97, 5>>>>,
      <<320, 241,
        <<136, 41, 23, 78, 228, 42, 210, 23, 12, 203, 37, 147, 20, 197, 140, 93,
          51, 53, 2, 233, 56, 140, 135, 2, 129, 63, 33, 129, 167, 166, 180, 75>>>>,
      <<320, 314,
        <<77, 191, 118, 12, 91, 16, 150, 245, 143, 12, 78, 162, 86, 183, 138, 168,
          186, 92, 188, 108, 43, 113, 173, 219, 77, 80, 28, 46, 121, 20, 109, 246>>>>,
      <<321, 40,
        <<124, 183, 191, 247, 239, 0, 4, 143, 207, 148, 103, 143, 251, 106, 24, 115,
          182, 75, 228, 197, 124, 110, 96, 195, 244, 115, 194, 8, 95, 245, 109, 57>>>>,
      <<324, 1,
        <<58, 106, 204, 64, 86, 132, 221, 48, 245, 233, 253, 47, 11, 33, 156, 35,
          33, 59, 83, 240, 142, 89, 192, 159, 188, 141, 95, 150, 181, 13, 2, 94>>>>,
      <<324, 2,
        <<209, 198, 241, 224, 207, 229, 119, 246, 88, 77, 58, 130, 194, 118, 221, 22,
          40, 29, 169, 161, 105, 124, 232, 14, 195, 229, 156, 242, 1, 140, 154, 62>>>>,
      <<324, 3,
        <<5, 246, 126, 141, 182, 86, 211, 192, 250, 12, 217, 134, 31, 197, 33, 17,
          235, 147, 103, 38, 33, 104, 59, 71, 250, 41, 130, 123, 229, 219, 228, 250>>>>,
      <<324, 33,
        <<60, 15, 225, 236, 96, 241, 244, 2, 174, 67, 138, 109, 133, 231, 207, 182,
          191, 44, 123, 103, 29, 129, 212, 72, 230, 4, 200, 190, 239, 110, 228, 232>>>>,
      <<324, 34,
        <<189, 135, 62, 69, 170, 178, 168, 125, 69, 135, 64, 157, 192, 125, 113, 183,
          240, 176, 188, 137, 99, 150, 47, 225, 206, 176, 33, 99, 224, 171, 87, 160>>>>,
      <<324, 35,
        <<191, 120, 178, 169, 83, 89, 124, 37, 27, 207, 117, 31, 183, 167, 174, 85,
          156, 14, 194, 145, 168, 102, 69, 196, 201, 90, 98, 165, 80, 37, 104, 174>>>>,
      <<324, 40,
        <<181, 243, 59, 98, 45, 32, 34, 231, 0, 178, 67, 73, 89, 230, 237, 203,
          107, 39, 13, 102, 239, 160, 105, 67, 183, 144, 172, 164, 94, 151, 238, 211>>>>,
      <<324, 319,
        <<153, 134, 98, 52, 179, 45, 41, 140, 77, 72, 189, 158, 177, 143, 244, 17,
          229, 128, 186, 249, 5, 151, 93, 75, 32, 100, 117, 98, 165, 32, 107, 220>>>>,
      <<325, 40,
        <<234, 141, 59, 60, 136, 171, 51, 93, 141, 108, 92, 147, 199, 216, 135, 88,
          213, 197, 125, 193, 241, 4, 74, 255, 239, 27, 207, 3, 30, 181, 25, 149>>>>,
      <<1, 326,
        <<59, 40, 104, 2, 152, 117, 97, 62, 188, 101, 154, 127, 77, 242, 60, 176,
          48, 15, 69, 24, 117, 230, 215, 148, 31, 137, 59, 218, 99, 37, 99, 94>>>>,
      <<2, 326,
        <<0, 211, 103, 26, 121, 243, 37, 107, 36, 101, 239, 8, 68, 54, 246, 74,
          130, 101, 12, 118, 184, 211, 2, 153, 43, 8, 239, 41, 38, 167, 203, 89>>>>,
      <<3, 326,
        <<197, 118, 208, 92, 69, 6, 56, 5, 89, 131, 65, 244, 60, 194, 41, 141,
          186, 73, 209, 135, 65, 79, 141, 253, 238, 108, 103, 250, 185, 107, 53, 124>>>>,
      <<33, 326,
        <<220, 64, 166, 248, 73, 223, 63, 174, 18, 28, 21, 177, 113, 12, 39, 24,
          170, 141, 197, 236, 137, 126, 199, 7, 28, 167, 97, 195, 227, 77, 168, 97>>>>,
      <<34, 326,
        <<42, 160, 238, 11, 93, 54, 74, 207, 96, 237, 133, 55, 139, 12, 5, 229,
          226, 21, 8, 184, 34, 107, 239, 226, 1, 143, 217, 91, 95, 140, 91, 84>>>>,
      <<35, 326,
        <<204, 176, 66, 255, 2, 49, 18, 8, 153, 235, 85, 42, 110, 32, 199, 236,
          205, 159, 82, 44, 4, 147, 99, 210, 163, 121, 51, 53, 239, 42, 127, 75>>>>,
      <<36, 326,
        <<122, 239, 168, 82, 108, 183, 218, 159, 205, 4, 120, 146, 77, 140, 173, 235,
          173, 124, 209, 69, 249, 28, 50, 133, 37, 135, 58, 100, 38, 109, 57, 187>>>>,
      <<40, 326,
        <<50, 29, 28, 92, 61, 218, 29, 146, 81, 9, 101, 96, 84, 246, 244, 16,
          113, 79, 89, 141, 70, 243, 126, 15, 22, 231, 94, 7, 39, 4, 26, 182>>>>,
      <<252, 326,
        <<107, 187, 197, 196, 228, 152, 176, 222, 121, 111, 3, 45, 255, 149, 200, 79,
          31, 169, 9, 95, 93, 55, 183, 142, 51, 168, 38, 218, 251, 227, 244, 202>>>>,
      <<260, 326,
        <<75, 174, 67, 153, 166, 150, 20, 108, 125, 202, 220, 227, 241, 86, 28, 171,
          226, 195, 81, 170, 105, 95, 174, 248, 85, 159, 63, 176, 168, 78, 176, 134>>>>,
      <<319, 326,
        <<85, 68, 242, 206, 75, 243, 255, 200, 30, 30, 183, 241, 235, 94, 20, 123,
          32, 141, 233, 88, 106, 73, 251, 34, 82, 214, 152, 190, 59, 50, 10, 94>>>>,
      <<320, 326,
        <<239, 14, 14, 239, 245, 237, 49, 159, 32, 103, 149, 54, 247, 123, 152, 40,
          93, 141, 216, 101, 29, 92, 51, 80, 57, 7, 181, 198, 131, 71, 248, 208>>>>,
      <<329, 40,
        <<91, 27, 42, 151, 178, 99, 52, 93, 120, 183, 142, 15, 136, 103, 196, 32,
          126, 63, 130, 217, 150, 72, 34, 80, 126, 150, 252, 30, 10, 184, 244, 141>>>>,
      <<333, 41,
        <<73, 116, 38, 231, 0, 46, 50, 159, 150, 52, 0, 202, 173, 237, 180, 136,
          101, 82, 170, 252, 158, 180, 136, 217, 125, 212, 5, 1, 139, 244, 106, 192>>>>,
      <<1, 335,
        <<84, 253, 138, 173, 164, 110, 251, 58, 174, 203, 52, 18, 23, 6, 227, 46,
          181, 62, 90, 70, 59, 164, 181, 163, 133, 155, 40, 175, 24, 51, 26, 96>>>>,
      <<2, 335,
        <<220, 33, 148, 120, 208, 90, 226, 84, 162, 240, 79, 74, 243, 184, 122, 207,
          246, 198, 102, 6, 143, 153, 182, 25, 214, 251, 104, 202, 221, 175, 55, 161>>>>,
      <<3, 335,
        <<71, 76, 196, 195, 141, 3, 113, 199, 125, 92, 149, 47, 61, 129, 243, 65,
          193, 123, 215, 59, 186, 184, 26, 243, 111, 184, 185, 98, 101, 233, 65, 236>>>>,
      <<33, 335,
        <<137, 20, 96, 178, 93, 3, 34, 213, 130, 185, 87, 61, 25, 32, 163, 244,
          203, 215, 29, 130, 203, 138, 217, 73, 226, 49, 125, 101, 172, 76, 61, 1>>>>,
      <<34, 335,
        <<102, 112, 238, 237, 77, 196, 10, 112, 245, 207, 198, 66, 135, 75, 227, 222,
          197, 21, 246, 104, 176, 66, 235, 219, 164, 144, 237, 4, 217, 162, 128, 114>>>>,
      <<36, 335,
        <<90, 63, 107, 59, 228, 97, 135, 71, 136, 99, 119, 90, 170, 196, 39, 68,
          219, 84, 229, 180, 92, 170, 158, 197, 77, 52, 24, 123, 59, 18, 214, 160>>>>,
      <<41, 335,
        <<254, 60, 44, 209, 32, 16, 6, 41, 115, 198, 36, 126, 29, 127, 64, 45,
          22, 60, 9, 6, 178, 51, 148, 137, 9, 248, 114, 49, 208, 4, 111, 81>>>>,
      <<1, 340,
        <<255, 122, 46, 8, 59, 137, 133, 89, 179, 40, 201, 227, 75, 81, 109, 220,
          122, 148, 29, 158, 69, 207, 21, 119, 20, 151, 57, 48, 15, 144, 222, 153>>>>,
      <<3, 340,
        <<172, 87, 220, 88, 1, 26, 175, 91, 32, 222, 135, 46, 85, 153, 104, 127,
          100, 209, 12, 222, 14, 12, 125, 106, 199, 68, 22, 60, 62, 206, 11, 248>>>>,
      <<36, 340,
        <<64, 216, 129, 197, 92, 44, 189, 150, 152, 11, 200, 29, 145, 40, 92, 60,
          41, 49, 227, 119, 135, 2, 227, 161, 192, 157, 46, 218, 86, 153, 164, 103>>>>,
      <<38, 340,
        <<114, 159, 178, 253, 154, 199, 226, 8, 152, 173, 154, 12, 26, 252, 236, 129,
          36, 127, 163, 119, 145, 255, 76, 197, 131, 170, 170, 106, 12, 102, 102, 12>>>>,
      <<42, 340,
        <<210, 221, 139, 150, 218, 23, 50, 73, 171, 150, 123, 238, 144, 168, 244, 152,
          3, 7, 211, 145, 212, 52, 63, 45, 129, 219, 23, 153, 110, 104, 79, 9>>>>,
      <<211, 340,
        <<35, 65, 19, 196, 86, 54, 110, 99, 138, 232, 144, 57, 90, 83, 144, 237,
          46, 16, 163, 125, 177, 44, 158, 22, 169, 128, 255, 63, 117, 74, 188, 69>>>>,
      <<218, 340,
        <<2, 50, 150, 13, 215, 195, 35, 66, 7, 152, 49, 219, 97, 15, 93, 23,
          232, 21, 14, 197, 221, 35, 205, 126, 44, 0, 183, 4, 30, 218, 182, 237>>>>,
      <<240, 340,
        <<181, 42, 116, 131, 160, 220, 44, 59, 46, 168, 109, 234, 187, 215, 107, 142,
          147, 131, 52, 12, 206, 140, 159, 171, 236, 211, 21, 49, 120, 170, 46, 141>>>>,
      <<340, 1,
        <<114, 182, 126, 100, 32, 2, 21, 217, 77, 141, 90, 92, 70, 196, 164, 69,
          229, 118, 213, 12, 4, 63, 160, 70, 144, 230, 173, 108, 196, 31, 4, 59>>>>,
      <<340, 2,
        <<203, 40, 135, 79, 238, 247, 229, 62, 28, 126, 130, 154, 196, 236, 161, 16,
          117, 183, 86, 15, 36, 244, 151, 157, 230, 97, 187, 165, 185, 132, 148, 104>>>>,
      <<340, 35,
        <<249, 204, 231, 145, 181, 164, 242, 194, 83, 74, 204, 95, 52, 138, 5, 90,
          17, 37, 186, 70, 109, 255, 230, 166, 253, 24, 49, 160, 71, 167, 110, 54>>>>,
      <<340, 37,
        <<0, 136, 40, 1, 212, 80, 211, 30, 137, 39, 99, 81, 6, 211, 48, 108,
          22, 91, 99, 218, 8, 149, 31, 9, 47, 69, 129, 70, 66, 183, 238, 167>>>>,
      <<340, 41,
        <<161, 70, 109, 45, 223, 239, 19, 241, 151, 203, 183, 201, 70, 138, 249, 142,
          34, 69, 11, 34, 48, 214, 6, 87, 32, 3, 162, 154, 253, 101, 94, 163>>>>,
      <<340, 42,
        <<176, 217, 220, 52, 210, 231, 228, 255, 173, 46, 111, 30, 64, 129, 120, 77,
          53, 172, 13, 189, 72, 15, 167, 100, 25, 69, 51, 231, 172, 160, 139, 28>>>>,
      <<340, 43,
        <<88, 212, 81, 81, 143, 129, 114, 193, 102, 15, 99, 174, 127, 29, 39, 55,
          132, 82, 216, 91, 106, 200, 117, 51, 230, 218, 85, 90, 158, 177, 32, 180>>>>,
      <<340, 209,
        <<58, 85, 203, 26, 128, 161, 196, 246, 142, 83, 32, 229, 117, 120, 145, 214,
          121, 176, 53, 68, 217, 190, 225, 231, 247, 201, 212, 51, 72, 76, 82, 143>>>>,
      <<340, 210,
        <<35, 195, 25, 154, 83, 90, 149, 223, 98, 80, 179, 118, 6, 224, 88, 27,
          8, 245, 206, 240, 255, 45, 41, 168, 19, 116, 138, 35, 235, 142, 186, 53>>>>,
      <<340, 216,
        <<86, 158, 228, 213, 74, 173, 93, 106, 149, 168, 8, 172, 55, 183, 34, 26,
          251, 46, 51, 77, 208, 139, 40, 232, 68, 58, 170, 238, 175, 183, 112, 232>>>>,
      <<340, 217,
        <<175, 238, 203, 134, 181, 171, 224, 250, 151, 199, 98, 27, 1, 55, 82, 107,
          114, 205, 20, 118, 99, 235, 220, 98, 18, 58, 252, 246, 66, 61, 84, 227>>>>,
      <<340, 235,
        <<0, 86, 164, 190, 9, 33, 151, 223, 54, 1, 90, 188, 88, 201, 32, 3,
          26, 22, 145, 128, 152, 36, 209, 204, 251, 106, 238, 111, 66, 207, 101, 194>>>>,
      <<340, 239,
        <<146, 2, 60, 55, 22, 24, 250, 225, 116, 7, 160, 226, 128, 119, 18, 40,
          11, 218, 191, 93, 145, 121, 202, 170, 94, 214, 72, 125, 213, 221, 209, 33>>>>,
      <<340, 335,
        <<155, 157, 41, 196, 13, 68, 96, 109, 145, 124, 193, 13, 29, 176, 61, 154,
          42, 138, 239, 166, 170, 65, 132, 239, 97, 65, 158, 125, 192, 131, 58, 160>>>>,
      <<1, 345,
        <<92, 165, 36, 194, 111, 217, 75, 137, 139, 64, 72, 22, 139, 66, 36, 180,
          237, 200, 90, 177, 50, 86, 66, 66, 185, 13, 217, 197, 186, 215, 124, 80>>>>,
      <<2, 345,
        <<133, 33, 188, 6, 243, 90, 217, 3, 254, 45, 44, 105, 158, 178, 58, 174,
          138, 14, 88, 162, 26, 236, 32, 194, 196, 201, 7, 181, 105, 184, 218, 186>>>>,
      <<3, 345,
        <<191, 199, 63, 91, 240, 57, 230, 224, 193, 164, 38, 60, 130, 170, 105, 137,
          165, 234, 193, 15, 82, 69, 220, 121, 45, 126, 33, 158, 210, 234, 233, 19>>>>,
      <<33, 345,
        <<10, 135, 253, 165, 167, 57, 35, 34, 88, 251, 68, 153, 128, 26, 76, 137,
          74, 42, 158, 211, 147, 34, 205, 144, 232, 192, 155, 83, 35, 39, 51, 90>>>>,
      <<34, 345,
        <<46, 142, 228, 145, 118, 54, 196, 153, 248, 116, 33, 163, 223, 76, 234, 125,
          206, 84, 104, 243, 227, 229, 25, 213, 202, 38, 34, 229, 35, 88, 218, 99>>>>,
      <<36, 345,
        <<166, 143, 245, 156, 68, 172, 176, 24, 146, 123, 247, 47, 206, 90, 70, 243,
          189, 100, 162, 85, 215, 35, 190, 110, 19, 59, 88, 65, 161, 31, 179, 203>>>>,
      <<41, 345,
        <<139, 240, 20, 125, 122, 31, 221, 146, 121, 115, 1, 25, 109, 128, 242, 145,
          36, 140, 59, 122, 196, 140, 159, 60, 160, 197, 252, 37, 6, 50, 230, 67>>>>,
      <<340, 345,
        <<61, 222, 54, 57, 128, 252, 202, 7, 158, 86, 97, 160, 163, 71, 11, 94,
          44, 139, 241, 38, 112, 50, 64, 94, 98, 222, 2, 44, 147, 247, 201, 201>>>>,
      <<346, 1,
        <<85, 70, 8, 105, 250, 48, 103, 26, 10, 212, 21, 52, 101, 67, 28, 13,
          23, 220, 156, 161, 195, 113, 89, 188, 251, 82, 70, 142, 253, 101, 210, 244>>>>,
      <<346, 2,
        <<33, 201, 183, 246, 237, 56, 106, 14, 56, 76, 35, 44, 56, 188, 102, 195,
          131, 162, 40, 8, 214, 235, 241, 121, 245, 187, 173, 227, 118, 191, 254, 66>>>>,
      <<346, 3,
        <<174, 76, 55, 83, 184, 16, 1, 174, 31, 209, 22, 224, 240, 110, 246, 225,
          77, 108, 38, 184, 160, 9, 227, 65, 105, 80, 74, 252, 153, 98, 65, 20>>>>,
      <<346, 33,
        <<17, 212, 245, 159, 120, 121, 175, 191, 111, 172, 165, 75, 186, 217, 192, 97,
          161, 109, 235, 80, 59, 81, 221, 210, 117, 252, 126, 87, 34, 11, 227, 183>>>>,
      <<346, 34,
        <<171, 63, 34, 46, 96, 168, 148, 139, 175, 32, 223, 124, 98, 79, 217, 135,
          254, 47, 254, 74, 239, 162, 176, 141, 72, 86, 35, 166, 121, 120, 94, 177>>>>,
      <<346, 36,
        <<20, 193, 106, 27, 240, 164, 127, 91, 195, 110, 69, 21, 187, 253, 125, 194,
          16, 192, 65, 244, 29, 246, 45, 2, 245, 173, 230, 178, 136, 226, 198, 25>>>>,
      <<346, 41,
        <<199, 38, 161, 155, 57, 230, 164, 12, 161, 75, 69, 253, 8, 58, 118, 53,
          64, 139, 199, 66, 82, 164, 49, 127, 240, 146, 254, 222, 174, 86, 198, 155>>>>,
      <<346, 340,
        <<107, 223, 223, 85, 72, 17, 92, 110, 135, 235, 95, 70, 169, 177, 50, 26,
          140, 57, 230, 31, 33, 1, 42, 238, 242, 47, 147, 185, 120, 152, 148, 69>>>>,
      <<356, 1,
        <<166, 71, 93, 102, 158, 147, 82, 30, 49, 33, 16, 89, 11, 122, 56, 6,
          145, 244, 147, 242, 21, 95, 207, 136, 118, 81, 20, 31, 203, 196, 9, 229>>>>,
      <<356, 2,
        <<0, 91, 91, 100, 141, 187, 23, 148, 142, 166, 17, 54, 65, 228, 66, 119,
          201, 70, 11, 145, 39, 218, 141, 190, 28, 242, 196, 228, 235, 155, 143, 58>>>>,
      <<356, 3,
        <<121, 64, 159, 13, 58, 199, 177, 16, 124, 135, 171, 245, 250, 50, 64, 68,
          144, 122, 119, 124, 155, 16, 205, 222, 123, 89, 152, 85, 63, 107, 30, 225>>>>,
      <<356, 33,
        <<28, 196, 113, 176, 117, 86, 66, 93, 221, 205, 7, 104, 244, 28, 0, 182,
          206, 141, 29, 103, 150, 25, 123, 193, 61, 64, 43, 200, 172, 62, 44, 15>>>>,
      <<356, 34,
        <<200, 43, 209, 142, 35, 205, 123, 83, 9, 80, 77, 69, 102, 114, 175, 55,
          180, 188, 183, 189, 24, 11, 69, 239, 45, 223, 14, 189, 250, 230, 159, 246>>>>,
      <<356, 36,
        <<113, 182, 116, 22, 176, 21, 209, 131, 149, 226, 55, 30, 150, 18, 62, 55,
          226, 212, 5, 198, 251, 2, 253, 187, 42, 139, 201, 202, 160, 31, 251, 125>>>>,
      <<356, 42,
        <<176, 128, 51, 80, 169, 47, 88, 163, 184, 241, 14, 119, 79, 122, 177, 10,
          253, 160, 215, 155, 49, 253, 248, 88, 20, 100, 112, 67, 197, 51, 244, 131>>>>,
      <<1, 358,
        <<36, 237, 135, 202, 26, 240, 174, 135, 12, 66, 37, 81, 242, 110, 29, 100,
          233, 89, 167, 245, 104, 160, 32, 22, 244, 48, 56, 153, 36, 233, 183, 241>>>>,
      <<2, 358,
        <<225, 103, 191, 242, 32, 203, 149, 237, 91, 89, 171, 111, 52, 48, 102, 230,
          241, 208, 55, 196, 101, 11, 127, 95, 179, 224, 68, 85, 9, 88, 38, 114>>>>,
      <<3, 358,
        <<157, 181, 103, 152, 100, 141, 145, 93, 163, 14, 46, 147, 136, 241, 156, 19,
          127, 168, 46, 19, 178, 247, 131, 73, 37, 113, 215, 58, 132, 14, 55, 230>>>>,
      <<33, 358,
        <<60, 133, 198, 40, 34, 167, 17, 42, 142, 208, 208, 142, 122, 159, 237, 54,
          146, 241, 123, 112, 7, 254, 137, 74, 221, 132, 229, 153, 108, 164, 195, 183>>>>,
      <<34, 358,
        <<79, 68, 108, 211, 166, 108, 139, 245, 167, 133, 220, 176, 178, 103, 34, 211,
          19, 67, 78, 218, 82, 52, 89, 95, 225, 246, 22, 16, 135, 136, 71, 108>>>>,
      <<36, 358,
        <<11, 194, 35, 46, 202, 89, 163, 212, 44, 63, 23, 135, 52, 122, 2, 51,
          203, 95, 98, 64, 71, 207, 239, 216, 39, 173, 82, 189, 144, 245, 85, 81>>>>,
      <<42, 358,
        <<198, 203, 219, 178, 235, 141, 110, 124, 183, 111, 131, 109, 177, 146, 216, 135,
          76, 48, 242, 181, 121, 247, 41, 57, 233, 35, 106, 59, 112, 64, 19, 35>>>>,
      <<1, 363,
        <<228, 50, 229, 146, 160, 185, 206, 40, 128, 26, 8, 82, 179, 173, 210, 199,
          12, 193, 80, 34, 246, 130, 60, 117, 125, 49, 149, 230, 237, 214, 198, 125>>>>,
      <<3, 363,
        <<191, 171, 64, 177, 230, 216, 253, 245, 59, 203, 193, 211, 183, 233, 70, 66,
          63, 43, 185, 177, 142, 253, 129, 52, 137, 209, 33, 167, 169, 62, 242, 51>>>>,
      <<35, 363,
        <<18, 37, 193, 194, 60, 205, 172, 145, 64, 58, 86, 109, 201, 28, 106, 44,
          129, 15, 30, 153, 0, 149, 223, 169, 209, 157, 232, 2, 19, 231, 36, 186>>>>,
      <<36, 363,
        <<44, 171, 214, 7, 72, 200, 65, 122, 132, 226, 100, 53, 164, 217, 95, 186,
          48, 39, 135, 145, 111, 239, 249, 237, 158, 227, 59, 218, 80, 22, 108, 53>>>>,
      <<39, 363,
        <<15, 98, 176, 156, 229, 242, 109, 137, 14, 185, 161, 214, 22, 159, 71, 85,
          106, 136, 55, 220, 182, 185, 66, 217, 205, 36, 62, 55, 185, 47, 206, 33>>>>,
      <<207, 363,
        <<127, 146, 13, 190, 43, 200, 107, 91, 132, 219, 41, 200, 193, 54, 109, 12,
          101, 18, 80, 186, 74, 234, 38, 156, 32, 139, 58, 242, 201, 176, 253, 241>>>>,
      <<214, 363,
        <<167, 219, 239, 107, 240, 191, 84, 126, 43, 151, 249, 191, 23, 81, 108, 150,
          88, 134, 209, 81, 149, 112, 149, 248, 135, 169, 184, 5, 20, 79, 9, 56>>>>,
      <<233, 363,
        <<222, 164, 137, 249, 81, 141, 171, 197, 159, 130, 89, 89, 73, 82, 64, 213,
          117, 98, 134, 112, 61, 41, 88, 130, 65, 184, 138, 203, 37, 11, 36, 121>>>>,
      <<356, 363,
        <<60, 55, 227, 223, 25, 6, 222, 183, 42, 200, 49, 203, 209, 216, 99, 164,
          122, 7, 25, 247, 19, 204, 154, 34, 71, 226, 181, 49, 206, 115, 109, 58>>>>,
      <<363, 2,
        <<244, 78, 205, 208, 157, 33, 144, 34, 224, 250, 101, 34, 209, 107, 99, 194,
          39, 12, 251, 57, 164, 104, 180, 203, 62, 145, 110, 245, 194, 231, 3, 237>>>>,
      <<363, 36,
        <<69, 96, 71, 127, 20, 69, 137, 41, 21, 0, 28, 88, 180, 70, 69, 219,
          187, 122, 78, 166, 173, 71, 240, 140, 67, 112, 47, 207, 162, 210, 97, 246>>>>,
      <<363, 38,
        <<188, 158, 65, 93, 156, 35, 213, 136, 125, 20, 129, 237, 108, 31, 64, 79,
          241, 118, 99, 139, 79, 101, 147, 73, 165, 27, 156, 241, 5, 212, 167, 229>>>>,
      <<363, 41,
        <<129, 160, 3, 161, 135, 86, 75, 23, 167, 53, 255, 39, 60, 178, 153, 24,
          36, 175, 151, 174, 34, 98, 151, 170, 157, 66, 75, 222, 28, 169, 10, 165>>>>,
      <<363, 42,
        <<19, 107, 78, 222, 169, 83, 216, 101, 127, 65, 230, 172, 74, 223, 174, 191,
          163, 72, 175, 131, 255, 72, 103, 69, 42, 164, 17, 148, 11, 143, 91, 237>>>>,
      <<363, 43,
        <<231, 168, 59, 255, 84, 76, 107, 67, 15, 29, 251, 166, 230, 150, 131, 30,
          20, 241, 187, 36, 87, 104, 43, 182, 65, 5, 224, 100, 133, 6, 129, 83>>>>,
      <<363, 209,
        <<244, 131, 139, 56, 64, 133, 194, 164, 80, 114, 179, 4, 197, 38, 100, 242,
          124, 246, 141, 47, 46, 184, 160, 178, 90, 96, 247, 107, 86, 25, 223, 10>>>>,
      <<363, 211,
        <<113, 102, 154, 125, 189, 58, 226, 49, 221, 251, 165, 89, 186, 133, 24, 139,
          22, 98, 41, 63, 179, 220, 145, 132, 245, 123, 253, 77, 205, 249, 25, 251>>>>,
      <<363, 216,
        <<208, 62, 82, 139, 116, 50, 237, 174, 236, 44, 189, 244, 193, 60, 66, 218,
          72, 126, 12, 128, 190, 140, 49, 74, 111, 3, 14, 8, 45, 9, 189, 244>>>>,
      <<363, 218,
        <<70, 161, 251, 86, 90, 92, 176, 243, 216, 83, 46, 195, 67, 107, 31, 208,
          36, 168, 236, 43, 27, 166, 49, 96, 36, 87, 249, 197, 253, 100, 176, 88>>>>,
      <<363, 235,
        <<223, 114, 181, 145, 211, 157, 194, 114, 88, 76, 51, 54, 60, 126, 80, 216,
          179, 158, 136, 157, 233, 143, 185, 21, 127, 143, 32, 77, 52, 220, 242, 103>>>>,
      <<363, 240,
        <<140, 123, 212, 65, 143, 42, 26, 27, 31, 62, 189, 101, 179, 132, 252, 88,
          183, 82, 33, 224, 5, 84, 184, 15, 107, 125, 61, 13, 174, 18, 213, 124>>>>,
      <<363, 358,
        <<156, 137, 235, 157, 223, 83, 237, 87, 94, 149, 102, 178, 206, 233, 145, 69,
          215, 44, 151, 22, 57, 180, 22, 26, 7, 237, 178, 9, 82, 41, 11, 189>>>>,
      <<1, 370,
        <<65, 117, 66, 208, 193, 106, 206, 215, 113, 140, 231, 146, 169, 211, 45, 6,
          93, 229, 7, 197, 171, 207, 237, 237, 191, 25, 85, 118, 121, 47, 32, 154>>>>,
      <<2, 370,
        <<18, 151, 119, 244, 139, 58, 194, 194, 192, 153, 172, 43, 117, 139, 208, 166,
          8, 38, 97, 91, 135, 143, 213, 40, 3, 33, 128, 152, 38, 205, 225, 249>>>>,
      <<3, 370,
        <<169, 22, 119, 123, 150, 10, 102, 99, 142, 254, 3, 198, 134, 230, 52, 80,
          64, 66, 213, 240, 173, 38, 83, 175, 104, 169, 228, 126, 45, 141, 58, 132>>>>,
      <<33, 370,
        <<156, 47, 13, 197, 133, 215, 153, 86, 116, 192, 20, 136, 81, 210, 81, 104,
          241, 11, 156, 151, 123, 141, 70, 165, 157, 224, 116, 169, 86, 77, 131, 31>>>>,
      <<34, 370,
        <<246, 150, 221, 57, 240, 142, 17, 123, 228, 46, 120, 71, 189, 159, 36, 223,
          205, 182, 53, 8, 71, 243, 156, 190, 83, 210, 230, 65, 12, 178, 201, 149>>>>,
      <<36, 370,
        <<129, 65, 36, 26, 236, 170, 114, 43, 188, 30, 58, 192, 104, 52, 211, 41,
          124, 137, 227, 97, 41, 44, 204, 211, 253, 51, 134, 211, 91, 250, 26, 78>>>>,
      <<42, 370,
        <<196, 252, 173, 182, 217, 12, 145, 77, 100, 208, 0, 198, 39, 8, 205, 86,
          17, 135, 184, 34, 165, 43, 172, 243, 200, 137, 224, 206, 36, 18, 242, 125>>>>,
      <<363, 370,
        <<248, 113, 24, 200, 12, 222, 33, 235, 182, 254, 110, 80, 153, 67, 39, 243,
          43, 18, 142, 242, 95, 239, 47, 153, 187, 190, 135, 190, 54, 22, 181, 82>>>>,
      <<370, 42,
        <<179, 191, 48, 52, 7, 184, 203, 150, 248, 45, 235, 199, 223, 191, 131, 217,
          226, 145, 116, 144, 215, 251, 124, 170, 31, 3, 14, 96, 143, 170, 128, 66>>>>,
      <<380, 232,
        <<22, 108, 12, 126, 226, 35, 140, 203, 152, 47, 89, 26, 30, 134, 108, 23,
          65, 252, 235, 27, 255, 206, 237, 0, 150, 55, 87, 156, 107, 142, 138, 78>>>>,
      <<388, 1,
        <<180, 135, 159, 255, 64, 124, 95, 87, 68, 175, 32, 121, 57, 32, 20, 127,
          57, 33, 113, 116, 117, 75, 128, 175, 241, 131, 239, 41, 117, 76, 231, 8>>>>,
      <<388, 2,
        <<89, 97, 189, 131, 193, 157, 89, 29, 126, 181, 196, 40, 65, 31, 87, 36,
          11, 255, 244, 144, 250, 99, 71, 19, 190, 7, 42, 84, 71, 215, 205, 191>>>>,
      <<388, 3,
        <<211, 118, 40, 213, 7, 77, 189, 113, 100, 242, 148, 115, 248, 242, 214, 62,
          50, 248, 111, 212, 199, 118, 53, 27, 29, 129, 117, 192, 165, 44, 72, 156>>>>,
      <<388, 33,
        <<29, 65, 185, 2, 252, 247, 133, 253, 198, 123, 244, 65, 65, 81, 92, 250,
          189, 107, 197, 122, 139, 7, 40, 145, 143, 213, 85, 23, 130, 201, 240, 239>>>>,
      <<388, 34,
        <<117, 169, 240, 103, 107, 217, 141, 199, 116, 200, 154, 124, 65, 64, 133, 119,
          227, 211, 119, 3, 221, 107, 211, 214, 132, 99, 144, 15, 216, 252, 200, 57>>>>,
      <<388, 36,
        <<151, 221, 122, 107, 194, 211, 128, 181, 205, 233, 50, 202, 50, 200, 228, 49,
          146, 221, 12, 211, 232, 139, 84, 17, 223, 171, 42, 178, 24, 71, 250, 187>>>>,
      <<388, 43,
        <<244, 136, 42, 188, 205, 151, 140, 71, 230, 254, 108, 158, 101, 83, 40, 3,
          213, 137, 169, 203, 64, 125, 42, 22, 202, 178, 63, 112, 11, 171, 13, 82>>>>,
      <<36, 390,
        <<56, 87, 106, 129, 52, 58, 136, 86, 170, 35, 163, 246, 118, 116, 41, 201,
          115, 172, 145, 90, 168, 216, 18, 144, 242, 89, 129, 245, 18, 53, 148, 38>>>>,
      <<1, 395,
        <<153, 14, 103, 63, 228, 241, 42, 198, 128, 48, 147, 130, 240, 192, 113, 97,
          131, 149, 81, 56, 118, 89, 184, 198, 138, 193, 231, 163, 208, 170, 74, 49>>>>,
      <<3, 395,
        <<108, 93, 150, 232, 202, 66, 109, 83, 210, 37, 67, 193, 200, 74, 134, 9,
          10, 156, 230, 62, 77, 119, 132, 169, 90, 23, 146, 8, 116, 178, 166, 154>>>>,
      <<35, 395,
        <<229, 12, 70, 247, 93, 40, 148, 63, 122, 83, 68, 109, 0, 22, 223, 180,
          168, 2, 35, 36, 59, 151, 125, 189, 80, 14, 12, 8, 159, 141, 222, 141>>>>,
      <<36, 395,
        <<237, 130, 46, 128, 23, 129, 134, 112, 25, 171, 32, 158, 30, 17, 116, 86,
          94, 37, 100, 44, 128, 235, 179, 110, 14, 112, 250, 160, 27, 176, 49, 117>>>>,
      <<38, 395,
        <<206, 119, 84, 43, 133, 100, 89, 94, 120, 96, 122, 16, 125, 131, 106, 177,
          183, 13, 15, 13, 225, 74, 117, 113, 173, 118, 61, 189, 157, 150, 141, 210>>>>,
      <<39, 395,
        <<87, 49, 177, 2, 134, 141, 178, 56, 77, 48, 30, 100, 68, 87, 64, 33,
          247, 51, 148, 148, 200, 206, 34, 98, 15, 78, 92, 200, 92, 140, 165, 254>>>>,
      <<42, 395,
        <<246, 6, 237, 235, 180, 58, 36, 168, 90, 205, 201, 6, 79, 239, 246, 46,
          83, 146, 240, 252, 17, 53, 92, 6, 198, 213, 237, 147, 150, 163, 39, 247>>>>,
      <<207, 395,
        <<156, 24, 92, 89, 208, 128, 49, 146, 114, 191, 151, 201, 107, 60, 135, 65,
          228, 111, 100, 248, 104, 67, 133, 147, 141, 88, 204, 104, 244, 116, 246, 106>>>>,
      <<211, 395,
        <<202, 150, 148, 20, 183, 141, 76, 81, 230, 204, 228, 113, 126, 126, 122, 104,
          105, 143, 152, 41, 85, 64, 251, 230, 243, 233, 210, 39, 243, 56, 228, 151>>>>,
      <<214, 395,
        <<222, 47, 160, 38, 249, 178, 200, 64, 200, 42, 216, 87, 180, 97, 185, 139,
          103, 59, 9, 37, 165, 165, 136, 84, 16, 135, 89, 66, 182, 129, 22, 194>>>>,
      <<218, 395,
        <<198, 128, 110, 137, 157, 42, 242, 243, 223, 16, 192, 85, 133, 36, 230, 196,
          82, 61, 168, 11, 167, 118, 79, 169, 20, 184, 151, 83, 140, 170, 210, 140>>>>,
      <<233, 395,
        <<217, 104, 246, 200, 32, 184, 75, 90, 125, 127, 141, 131, 219, 195, 218, 49,
          39, 219, 38, 162, 39, 58, 223, 206, 177, 42, 212, 234, 176, 108, 115, 51>>>>,
      <<240, 395,
        <<119, 217, 14, 153, 204, 222, 131, 174, 164, 79, 39, 206, 241, 89, 65, 13,
          122, 118, 108, 238, 184, 96, 43, 82, 66, 147, 167, 130, 230, 66, 208, 128>>>>,
      <<388, 395,
        <<215, 152, 100, 33, 59, 237, 205, 244, 201, 97, 36, 193, 226, 236, 232, 60,
          233, 138, 221, 23, 220, 122, 101, 154, 247, 178, 157, 208, 48, 105, 0, 244>>>>,
      <<395, 2,
        <<201, 249, 4, 251, 241, 26, 95, 73, 85, 16, 87, 35, 229, 83, 191, 108,
          122, 229, 167, 4, 141, 204, 14, 59, 191, 13, 57, 177, 141, 227, 116, 119>>>>,
      <<395, 3,
        <<76, 162, 161, 43, 138, 190, 210, 2, 253, 213, 131, 126, 25, 188, 227, 148,
          142, 18, 70, 159, 81, 172, 75, 89, 223, 74, 162, 43, 95, 99, 11, 189>>>>,
      <<395, 39,
        <<74, 67, 233, 39, 202, 17, 116, 193, 155, 156, 22, 192, 71, 124, 166, 108,
          216, 116, 160, 104, 183, 2, 179, 43, 97, 6, 146, 244, 158, 47, 112, 62>>>>,
      <<395, 40,
        <<88, 95, 26, 182, 251, 150, 137, 90, 183, 2, 40, 229, 246, 49, 77, 157,
          204, 111, 166, 12, 139, 137, 238, 170, 122, 50, 8, 167, 9, 242, 102, 11>>>>,
      <<395, 43,
        <<154, 131, 2, 220, 221, 178, 203, 221, 174, 119, 177, 228, 105, 118, 151, 213,
          10, 129, 46, 101, 147, 19, 103, 35, 190, 72, 173, 225, 124, 59, 242, 70>>>>,
      <<395, 212,
        <<140, 82, 247, 118, 179, 97, 139, 221, 142, 226, 76, 131, 64, 111, 42, 12,
          82, 103, 237, 72, 215, 46, 198, 130, 151, 181, 215, 181, 81, 89, 15, 78>>>>,
      <<395, 219,
        <<107, 228, 156, 229, 171, 178, 1, 236, 102, 151, 209, 156, 246, 27, 65, 180,
          173, 97, 72, 195, 119, 41, 2, 10, 194, 92, 200, 21, 70, 140, 21, 48>>>>,
      <<395, 241,
        <<200, 201, 92, 179, 90, 247, 63, 229, 223, 163, 185, 32, 179, 190, 15, 169,
          24, 236, 146, 86, 248, 54, 109, 209, 135, 193, 134, 22, 11, 119, 90, 56>>>>,
      <<402, 1,
        <<142, 251, 209, 79, 90, 78, 30, 46, 157, 237, 137, 225, 105, 14, 212, 161,
          117, 249, 236, 214, 197, 53, 180, 69, 236, 250, 119, 139, 198, 104, 211, 185>>>>,
      <<402, 2,
        <<103, 143, 21, 213, 140, 121, 179, 173, 151, 131, 101, 173, 48, 41, 173, 5,
          228, 157, 10, 241, 218, 99, 110, 11, 250, 147, 108, 254, 162, 45, 6, 23>>>>,
      <<402, 3,
        <<226, 242, 237, 127, 231, 90, 19, 2, 46, 204, 57, 43, 97, 151, 148, 140,
          195, 30, 108, 102, 152, 104, 171, 232, 242, 160, 1, 26, 38, 20, 132, 158>>>>,
      <<402, 33,
        <<183, 96, 168, 209, 137, 120, 44, 110, 222, 59, 52, 85, 176, 246, 42, 69,
          71, 171, 87, 4, 12, 139, 62, 232, 190, 123, 148, 233, 174, 72, 71, 80>>>>,
      <<402, 34,
        <<196, 224, 123, 66, 34, 193, 202, 75, 204, 46, 161, 189, 200, 225, 244, 206,
          188, 1, 77, 153, 87, 133, 8, 170, 147, 38, 190, 95, 120, 207, 211, 84>>>>,
      <<402, 36,
        <<208, 181, 136, 64, 195, 17, 140, 229, 125, 113, 197, 68, 234, 134, 87, 28,
          56, 54, 221, 235, 37, 62, 223, 49, 186, 26, 8, 142, 225, 88, 11, 118>>>>,
      <<402, 43,
        <<251, 50, 118, 183, 69, 245, 48, 0, 164, 68, 241, 148, 54, 4, 188, 91,
          206, 226, 196, 253, 215, 182, 191, 147, 224, 1, 54, 222, 226, 17, 84, 74>>>>,
      <<402, 395,
        <<60, 212, 148, 2, 66, 96, 98, 44, 234, 215, 164, 253, 156, 224, 197, 167,
          214, 64, 182, 195, 10, 216, 164, 222, 243, 52, 81, 172, 151, 220, 235, 50>>>>,
      <<1, 403,
        <<57, 160, 35, 218, 80, 147, 174, 97, 203, 29, 56, 217, 249, 22, 214, 24,
          182, 105, 241, 111, 130, 2, 240, 79, 131, 232, 213, 15, 61, 125, 220, 32>>>>,
      <<2, 403,
        <<227, 83, 33, 4, 146, 29, 110, 217, 155, 50, 244, 209, 166, 153, 67, 218,
          89, 44, 8, 227, 171, 182, 128, 128, 89, 218, 249, 143, 108, 83, 162, 232>>>>,
      <<3, 403,
        <<61, 88, 102, 14, 113, 239, 232, 234, 3, 17, 199, 219, 37, 52, 175, 200,
          87, 151, 86, 181, 142, 149, 116, 3, 131, 197, 102, 79, 191, 157, 177, 77>>>>,
      <<33, 403,
        <<57, 137, 170, 240, 222, 231, 14, 188, 83, 48, 137, 197, 188, 82, 217, 167,
          228, 36, 193, 215, 113, 195, 211, 50, 220, 134, 236, 99, 247, 251, 164, 14>>>>,
      <<34, 403,
        <<254, 237, 8, 197, 99, 189, 27, 44, 166, 94, 194, 19, 217, 51, 128, 206,
          94, 149, 193, 235, 191, 95, 34, 128, 45, 118, 41, 249, 246, 1, 27, 43>>>>,
      <<36, 403,
        <<246, 116, 84, 231, 112, 162, 189, 247, 47, 246, 99, 22, 3, 206, 79, 68,
          203, 149, 86, 235, 117, 70, 80, 132, 190, 60, 196, 49, 182, 216, 141, 168>>>>,
      <<43, 403,
        <<23, 106, 86, 170, 110, 194, 119, 254, 14, 137, 24, 181, 183, 21, 70, 63,
          53, 52, 217, 192, 6, 54, 214, 2, 16, 172, 111, 206, 170, 58, 65, 207>>>>,
      <<395, 403,
        <<134, 109, 37, 145, 141, 150, 234, 229, 182, 228, 187, 155, 101, 209, 208, 49,
          0, 198, 68, 14, 159, 192, 171, 103, 229, 200, 244, 9, 136, 21, 200, 183>>>>,
      <<299, 415,
        <<20, 0, 177, 139, 254, 68, 14, 147, 18, 81, 238, 103, 74, 201, 5, 228,
          3, 31, 121, 222, 68, 219, 9, 95, 94, 2, 142, 76, 118, 211, 165, 191>>>>,
      <<319, 415,
        <<135, 162, 244, 124, 203, 131, 229, 236, 136, 24, 229, 230, 112, 143, 190, 142,
          138, 167, 13, 141, 197, 53, 215, 178, 105, 168, 152, 89, 14, 143, 91, 45>>>>,
      <<340, 415,
        <<1, 20, 184, 185, 43, 37, 77, 9, 212, 48, 39, 79, 63, 4, 191, 134,
          158, 1, 226, 164, 43, 73, 16, 195, 253, 125, 246, 207, 235, 100, 58, 187>>>>,
      <<238, 417,
        <<19, 137, 61, 228, 9, 246, 16, 146, 110, 148, 149, 123, 3, 211, 109, 204,
          82, 125, 198, 142, 73, 160, 10, 74, 134, 120, 30, 64, 92, 183, 127, 57>>>>,
      <<250, 417,
        <<26, 17, 44, 224, 208, 193, 154, 67, 80, 168, 97, 162, 152, 119, 101, 221,
          93, 160, 155, 94, 229, 40, 255, 229, 245, 65, 143, 203, 57, 26, 20, 188>>>>,
      <<258, 417,
        <<119, 107, 55, 172, 70, 192, 74, 91, 157, 72, 232, 215, 136, 3, 35, 1,
          105, 26, 120, 19, 156, 119, 39, 145, 81, 135, 60, 149, 178, 100, 32, 139>>>>,
      <<232, 418,
        <<174, 51, 192, 195, 124, 225, 180, 246, 40, 185, 63, 122, 60, 200, 123, 253,
          210, 88, 0, 179, 129, 41, 61, 87, 70, 160, 197, 49, 2, 167, 152, 167>>>>,
      <<238, 419,
        <<232, 145, 75, 113, 60, 110, 123, 119, 94, 192, 175, 230, 68, 56, 207, 232,
          205, 35, 151, 234, 23, 94, 236, 128, 67, 100, 113, 201, 11, 163, 159, 84>>>>,
      <<250, 419,
        <<109, 113, 94, 74, 243, 38, 20, 99, 5, 102, 46, 70, 192, 215, 99, 230,
          105, 162, 77, 201, 56, 251, 102, 165, 154, 3, 63, 96, 90, 28, 58, 62>>>>,
      <<258, 419,
        <<151, 49, 249, 204, 88, 169, 180, 212, 154, 139, 38, 10, 108, 205, 120, 198,
          140, 215, 135, 40, 176, 8, 26, 196, 254, 12, 75, 98, 250, 79, 148, 159>>>>,
      <<442, 1,
        <<146, 105, 26, 217, 147, 225, 11, 206, 163, 44, 197, 193, 233, 1, 255, 234,
          14, 210, 152, 172, 156, 212, 85, 28, 38, 242, 212, 118, 97, 25, 148, 201>>>>,
      <<442, 2,
        <<30, 17, 133, 4, 58, 164, 131, 237, 203, 107, 176, 22, 195, 193, 196, 247,
          127, 51, 186, 216, 224, 132, 85, 189, 118, 166, 159, 50, 40, 48, 164, 128>>>>,
      <<442, 3,
        <<201, 218, 95, 60, 99, 124, 127, 179, 165, 14, 179, 158, 127, 179, 191, 222,
          69, 31, 3, 128, 41, 114, 109, 36, 99, 94, 64, 224, 55, 129, 229, 209>>>>,
      <<442, 4,
        <<10, 35, 149, 72, 36, 246, 63, 74, 92, 7, 155, 39, 192, 81, 4, 218,
          222, 70, 67, 30, 181, 226, 150, 208, 59, 41, 93, 76, 147, 8, 208, 148>>>>,
      <<442, 33,
        <<155, 170, 87, 177, 15, 195, 72, 58, 79, 189, 19, 47, 193, 224, 216, 120,
          133, 226, 94, 244, 139, 5, 44, 164, 140, 244, 225, 58, 62, 110, 149, 209>>>>,
      <<442, 34,
        <<106, 130, 177, 129, 31, 1, 18, 135, 230, 16, 76, 177, 220, 133, 68, 140,
          154, 53, 219, 135, 124, 82, 224, 18, 70, 210, 163, 21, 225, 3, 242, 218>>>>,
      <<442, 36,
        <<54, 249, 100, 209, 38, 229, 220, 2, 234, 112, 93, 222, 122, 69, 39, 164,
          214, 121, 43, 150, 78, 0, 100, 174, 196, 2, 132, 153, 219, 36, 0, 49>>>>,
      <<442, 46,
        <<244, 56, 22, 162, 176, 70, 64, 186, 159, 112, 244, 147, 164, 253, 249, 50,
          100, 231, 10, 58, 117, 173, 85, 126, 244, 177, 160, 59, 47, 118, 115, 117>>>>,
      <<1, 444,
        <<75, 134, 186, 28, 204, 166, 52, 137, 187, 143, 54, 72, 226, 193, 103, 74,
          146, 157, 192, 27, 71, 133, 159, 11, 224, 57, 63, 224, 7, 157, 24, 241>>>>,
      <<2, 444,
        <<101, 17, 217, 154, 59, 103, 8, 130, 50, 0, 185, 234, 129, 109, 15, 127,
          189, 64, 180, 81, 209, 212, 96, 200, 24, 55, 161, 85, 186, 253, 29, 101>>>>,
      <<3, 444,
        <<50, 124, 87, 166, 197, 125, 215, 70, 171, 227, 143, 44, 172, 131, 208, 182,
          20, 50, 166, 180, 34, 132, 246, 72, 252, 114, 92, 201, 209, 99, 216, 12>>>>,
      <<4, 444,
        <<13, 11, 189, 86, 15, 89, 149, 76, 177, 94, 169, 69, 220, 187, 74, 3,
          231, 11, 218, 181, 46, 7, 176, 156, 103, 60, 30, 60, 216, 238, 216, 92>>>>,
      <<33, 444,
        <<195, 4, 34, 104, 162, 4, 218, 85, 58, 242, 128, 216, 90, 221, 248, 109,
          159, 34, 30, 92, 103, 233, 88, 232, 69, 11, 7, 194, 232, 221, 161, 179>>>>,
      <<34, 444,
        <<90, 131, 19, 110, 246, 219, 86, 207, 175, 119, 78, 63, 218, 234, 68, 197,
          244, 208, 114, 226, 55, 104, 244, 223, 79, 22, 223, 113, 239, 103, 210, 213>>>>,
      <<36, 444,
        <<67, 252, 56, 104, 253, 31, 90, 216, 110, 119, 65, 133, 21, 80, 41, 46,
          97, 4, 242, 133, 198, 78, 46, 37, 102, 102, 31, 79, 1, 29, 243, 109>>>>,
      <<46, 444,
        <<195, 74, 64, 70, 164, 203, 58, 225, 8, 110, 36, 89, 127, 109, 106, 64,
          14, 211, 119, 7, 91, 137, 101, 156, 186, 198, 117, 148, 205, 49, 165, 224>>>>,
      <<238, 449,
        <<187, 88, 98, 65, 100, 105, 224, 137, 53, 243, 127, 14, 42, 144, 29, 50,
          228, 129, 60, 217, 43, 216, 103, 84, 193, 160, 249, 125, 246, 1, 135, 204>>>>,
      <<250, 449,
        <<220, 135, 241, 78, 106, 241, 11, 216, 154, 117, 39, 92, 100, 84, 16, 2,
          12, 203, 222, 210, 140, 109, 172, 126, 163, 250, 0, 149, 57, 25, 72, 139>>>>,
      <<258, 449,
        <<27, 166, 58, 203, 255, 172, 229, 221, 149, 45, 201, 39, 172, 136, 53, 86,
          22, 191, 45, 21, 42, 202, 22, 155, 42, 180, 254, 64, 204, 230, 112, 195>>>>,
      <<1, 450,
        <<14, 149, 2, 72, 195, 176, 38, 169, 119, 223, 25, 155, 117, 88, 170, 188,
          75, 62, 148, 90, 239, 90, 164, 247, 96, 90, 238, 164, 2, 109, 135, 251>>>>,
      <<3, 450,
        <<57, 136, 133, 54, 198, 251, 73, 163, 63, 142, 2, 124, 149, 166, 58, 91,
          121, 43, 226, 167, 226, 69, 137, 235, 3, 95, 170, 150, 24, 32, 253, 167>>>>,
      <<35, 450,
        <<97, 160, 128, 26, 113, 12, 16, 110, 10, 172, 82, 56, 135, 230, 145, 27,
          78, 71, 100, 153, 229, 42, 4, 192, 210, 206, 135, 238, 107, 246, 1, 193>>>>,
      <<36, 450,
        <<79, 225, 171, 218, 95, 40, 128, 62, 153, 43, 122, 148, 132, 141, 2, 96,
          83, 92, 9, 164, 155, 115, 128, 53, 218, 103, 215, 131, 229, 227, 97, 202>>>>,
      <<38, 450,
        <<127, 51, 191, 201, 169, 175, 17, 242, 47, 253, 51, 41, 51, 211, 42, 39,
          125, 14, 131, 177, 233, 93, 93, 144, 89, 154, 0, 112, 41, 176, 12, 210>>>>,
      <<39, 450,
        <<221, 213, 7, 136, 164, 227, 176, 95, 57, 144, 243, 93, 128, 9, 158, 86,
          75, 7, 152, 164, 160, 14, 68, 168, 194, 177, 148, 166, 51, 202, 110, 16>>>>,
      <<42, 450,
        <<71, 199, 149, 224, 57, 135, 62, 212, 80, 204, 72, 101, 29, 13, 244, 30,
          10, 86, 104, 213, 208, 236, 21, 27, 227, 212, 92, 253, 175, 158, 103, 208>>>>,
      <<44, 450,
        <<19, 62, 129, 140, 164, 95, 152, 17, 252, 120, 39, 146, 194, 147, 194, 246,
          11, 71, 29, 242, 74, 157, 45, 90, 89, 62, 76, 190, 15, 14, 241, 228>>>>,
      <<48, 450,
        <<19, 151, 111, 71, 132, 130, 105, 114, 60, 150, 191, 62, 187, 201, 231, 85,
          22, 125, 16, 112, 190, 112, 55, 205, 211, 142, 25, 222, 22, 21, 0, 26>>>>,
      <<56, 450,
        <<245, 82, 149, 183, 82, 91, 200, 219, 236, 189, 48, 98, 212, 138, 52, 0,
          107, 183, 166, 58, 116, 189, 222, 196, 38, 239, 205, 252, 121, 40, 31, 48>>>>,
      <<66, 450,
        <<62, 201, 94, 104, 64, 223, 215, 152, 160, 91, 75, 230, 147, 143, 164, 41,
          49, 110, 0, 63, 240, 198, 219, 145, 86, 20, 198, 11, 255, 63, 201, 231>>>>,
      <<78, 450,
        <<199, 121, 191, 77, 204, 91, 219, 203, 173, 237, 176, 255, 219, 39, 4, 2,
          208, 245, 137, 146, 57, 197, 222, 137, 169, 33, 14, 12, 178, 124, 224, 87>>>>,
      <<92, 450,
        <<106, 7, 84, 128, 223, 112, 46, 250, 218, 76, 210, 58, 89, 33, 37, 77,
          167, 208, 26, 90, 240, 74, 205, 43, 243, 115, 227, 5, 178, 82, 104, 244>>>>,
      <<108, 450,
        <<62, 111, 6, 31, 147, 121, 227, 43, 45, 124, 54, 46, 161, 243, 103, 210,
          165, 80, 42, 246, 215, 128, 119, 196, 188, 76, 146, 70, 61, 20, 42, 85>>>>,
      <<207, 450,
        <<166, 34, 67, 95, 40, 160, 31, 0, 82, 76, 200, 56, 149, 254, 227, 34,
          26, 92, 14, 39, 93, 85, 34, 4, 27, 210, 61, 83, 254, 147, 212, 140>>>>,
      <<211, 450,
        <<109, 116, 34, 157, 157, 71, 170, 183, 174, 44, 62, 173, 50, 217, 38, 86,
          16, 212, 47, 216, 209, 200, 3, 79, 187, 45, 184, 27, 234, 249, 142, 14>>>>,
      <<214, 450,
        <<60, 243, 75, 70, 146, 109, 174, 226, 220, 25, 86, 86, 36, 155, 198, 208,
          222, 59, 139, 236, 102, 140, 223, 40, 17, 55, 69, 127, 162, 105, 151, 218>>>>,
      <<218, 450,
        <<201, 69, 2, 187, 216, 107, 140, 117, 61, 108, 189, 225, 138, 40, 204, 210,
          13, 70, 189, 210, 131, 131, 41, 99, 99, 125, 58, 192, 15, 66, 90, 38>>>>,
      <<232, 450,
        <<197, 219, 222, 216, 244, 86, 30, 127, 195, 183, 186, 42, 163, 120, 7, 103,
          49, 253, 97, 170, 144, 145, 137, 79, 81, 170, 15, 35, 228, 196, 208, 223>>>>,
      <<233, 450,
        <<35, 39, 128, 183, 6, 173, 31, 242, 86, 234, 53, 155, 186, 135, 181, 227,
          73, 142, 167, 72, 89, 4, 255, 16, 168, 192, 118, 169, 33, 218, 197, 55>>>>,
      <<240, 450,
        <<139, 164, 35, 242, 242, 40, 104, 88, 161, 200, 236, 11, 80, 172, 179, 7,
          204, 118, 29, 93, 68, 234, 61, 154, 249, 189, 38, 46, 80, 140, 103, 249>>>>,
      <<442, 450,
        <<241, 220, 244, 139, 6, 38, 202, 16, 211, 115, 60, 182, 74, 15, 147, 108,
          146, 95, 194, 70, 58, 217, 60, 227, 142, 77, 43, 154, 105, 25, 190, 122>>>>,
      <<450, 2,
        <<50, 173, 39, 86, 65, 181, 233, 26, 28, 85, 22, 123, 158, 84, 247, 93,
          245, 221, 68, 130, 214, 76, 253, 145, 155, 67, 12, 101, 47, 7, 27, 156>>>>,
      <<450, 4,
        <<91, 204, 106, 24, 9, 10, 224, 160, 172, 204, 49, 162, 200, 221, 231, 52,
          124, 95, 140, 136, 121, 190, 247, 190, 53, 53, 158, 104, 174, 64, 109, 18>>>>,
      <<450, 41,
        <<120, 225, 45, 183, 127, 40, 147, 40, 144, 29, 2, 77, 35, 220, 234, 158,
          46, 186, 202, 220, 186, 246, 204, 167, 81, 207, 231, 167, 177, 81, 120, 36>>>>,
      <<450, 42,
        <<186, 227, 115, 84, 239, 67, 185, 218, 254, 89, 105, 191, 108, 58, 111, 168,
          86, 184, 201, 108, 120, 13, 10, 32, 177, 160, 163, 145, 50, 210, 150, 141>>>>,
      <<450, 43,
        <<201, 17, 152, 1, 14, 23, 82, 199, 62, 227, 122, 243, 209, 162, 48, 145,
          1, 219, 72, 235, 100, 215, 16, 118, 239, 70, 238, 32, 247, 86, 79, 11>>>>,
      <<450, 44,
        <<191, 106, 181, 193, 215, 112, 175, 160, 193, 180, 237, 193, 251, 43, 241, 226,
          116, 209, 137, 112, 101, 225, 231, 197, 19, 2, 17, 209, 144, 15, 87, 110>>>>,
      <<450, 45,
        <<218, 142, 14, 24, 12, 203, 214, 33, 251, 124, 117, 193, 24, 16, 221, 129,
          97, 159, 144, 175, 188, 123, 98, 34, 178, 25, 162, 146, 198, 5, 128, 242>>>>,
      <<450, 46,
        <<205, 255, 173, 228, 180, 189, 72, 9, 48, 91, 162, 22, 204, 247, 25, 160,
          184, 167, 254, 170, 242, 210, 188, 170, 169, 43, 36, 55, 138, 2, 239, 18>>>>,
      <<450, 50,
        <<39, 254, 192, 218, 95, 210, 212, 198, 87, 115, 225, 103, 31, 35, 207, 65,
          144, 253, 164, 113, 222, 115, 195, 214, 109, 88, 235, 143, 147, 34, 160, 19>>>>,
      <<450, 209,
        <<6, 244, 170, 162, 105, 39, 52, 172, 135, 89, 234, 53, 234, 52, 235, 24,
          232, 196, 233, 228, 125, 36, 57, 144, 116, 2, 178, 83, 21, 153, 82, 164>>>>,
      <<450, 213,
        <<244, 245, 18, 218, 200, 245, 156, 48, 108, 231, 219, 244, 46, 114, 200, 13,
          217, 53, 44, 223, 223, 208, 214, 120, 251, 230, 232, 139, 86, 232, 47, 236>>>>,
      <<450, 216,
        <<138, 247, 201, 71, 246, 180, 194, 175, 115, 253, 250, 151, 159, 6, 46, 153,
          96, 239, 174, 209, 93, 135, 182, 254, 64, 188, 240, 83, 72, 159, 163, 3>>>>,
      <<450, 220,
        <<214, 217, 38, 97, 86, 201, 173, 218, 181, 148, 45, 85, 124, 197, 107, 4,
          112, 176, 83, 241, 77, 0, 203, 73, 215, 57, 115, 87, 21, 50, 101, 173>>>>,
      <<450, 235,
        <<165, 147, 181, 207, 195, 142, 147, 131, 46, 190, 181, 248, 104, 248, 207, 128,
          166, 199, 139, 173, 105, 106, 80, 231, 111, 81, 228, 85, 61, 225, 1, 86>>>>,
      <<450, 242,
        <<22, 115, 39, 119, 145, 111, 54, 113, 156, 182, 195, 165, 71, 150, 209, 84,
          74, 248, 135, 224, 134, 66, 250, 254, 6, 151, 107, 79, 254, 173, 5, 49>>>>,
      <<450, 444,
        <<130, 174, 238, 46, 160, 135, 178, 117, 205, 151, 243, 133, 217, 205, 97, 113,
          94, 8, 134, 193, 66, 61, 167, 135, 119, 173, 116, 0, 4, 98, 103, 238>>>>,
      <<450, 450,
        <<27, 252, 110, 200, 115, 212, 2, 14, 69, 204, 115, 83, 125, 120, 215, 102,
          16, 254, 60, 38, 223, 99, 221, 227, 84, 130, 226, 35, 1, 248, 70, 138>>>>,
      <<232, 451,
        <<34, 141, 13, 83, 148, 82, 69, 117, 248, 77, 180, 196, 110, 54, 76, 10,
          234, 100, 224, 81, 151, 2, 144, 166, 31, 174, 70, 136, 134, 65, 215, 236>>>>,
      <<457, 1,
        <<29, 192, 138, 203, 15, 64, 136, 102, 213, 236, 212, 125, 35, 24, 42, 178,
          150, 111, 164, 79, 168, 127, 96, 196, 74, 12, 111, 1, 134, 224, 216, 1>>>>,
      <<457, 2,
        <<205, 10, 110, 159, 101, 152, 143, 249, 255, 237, 15, 252, 102, 97, 86, 175,
          135, 97, 4, 206, 184, 51, 161, 228, 70, 32, 83, 158, 229, 212, 113, 100>>>>,
      <<457, 3,
        <<150, 218, 94, 138, 199, 234, 35, 90, 16, 162, 24, 22, 26, 218, 63, 87,
          101, 84, 70, 220, 122, 2, 209, 26, 131, 136, 204, 167, 53, 191, 175, 231>>>>,
      <<457, 4,
        <<91, 58, 187, 111, 191, 99, 12, 90, 191, 28, 132, 207, 64, 236, 232, 197,
          66, 63, 7, 180, 114, 143, 26, 66, 101, 170, 158, 21, 201, 168, 111, 183>>>>,
      <<457, 5,
        <<248, 25, 69, 197, 226, 45, 75, 83, 146, 17, 114, 183, 247, 171, 41, 166,
          243, 232, 12, 16, 38, 129, 67, 5, 229, 76, 91, 98, 125, 62, 217, 148>>>>,
      <<457, 6,
        <<83, 93, 145, 190, 192, 71, 129, 169, 138, 44, 84, 30, 52, 181, 247, 241,
          140, 119, 156, 212, 29, 112, 14, 182, 6, 74, 125, 140, 152, 200, 27, 32>>>>,
      <<457, 7,
        <<116, 205, 155, 154, 71, 180, 80, 110, 90, 225, 209, 187, 123, 180, 105, 117,
          124, 245, 149, 252, 193, 113, 30, 152, 211, 82, 73, 199, 22, 197, 71, 153>>>>,
      <<457, 8,
        <<245, 252, 248, 180, 5, 116, 61, 25, 37, 195, 93, 43, 228, 138, 184, 143,
          205, 58, 147, 175, 48, 34, 215, 95, 222, 159, 236, 216, 98, 199, 136, 26>>>>,
      <<457, 9,
        <<94, 155, 25, 96, 221, 200, 17, 79, 156, 232, 250, 5, 233, 61, 235, 172,
          104, 29, 195, 151, 126, 217, 187, 43, 180, 37, 215, 251, 236, 159, 228, 175>>>>,
      <<457, 33,
        <<215, 234, 4, 227, 174, 223, 202, 92, 243, 88, 113, 245, 201, 102, 186, 182,
          77, 65, 83, 189, 56, 35, 190, 28, 139, 19, 73, 233, 148, 54, 244, 130>>>>,
      <<457, 34,
        <<131, 166, 193, 30, 162, 2, 119, 116, 18, 225, 166, 110, 79, 125, 255, 27,
          221, 30, 171, 6, 62, 141, 224, 131, 202, 228, 31, 43, 12, 166, 89, 57>>>>,
      <<457, 36,
        <<131, 201, 0, 30, 0, 169, 134, 62, 15, 62, 224, 94, 12, 6, 65, 147,
          79, 47, 126, 228, 123, 28, 174, 64, 207, 238, 115, 183, 127, 9, 146, 227>>>>,
      <<457, 46,
        <<122, 35, 202, 118, 203, 114, 173, 254, 3, 77, 166, 246, 165, 224, 172, 119,
          105, 72, 50, 217, 79, 203, 219, 239, 123, 195, 27, 69, 35, 110, 160, 28>>>>,
      <<457, 64,
        <<24, 24, 44, 206, 47, 53, 2, 166, 6, 112, 235, 100, 222, 203, 146, 126,
          137, 64, 104, 80, 121, 45, 7, 63, 16, 97, 194, 254, 58, 176, 3, 245>>>>,
      <<457, 90,
        <<229, 62, 14, 223, 254, 29, 178, 172, 179, 138, 123, 162, 47, 59, 235, 195,
          44, 241, 59, 6, 161, 156, 12, 96, 207, 160, 83, 200, 159, 108, 41, 237>>>>,
      <<457, 108,
        <<93, 188, 228, 174, 251, 237, 90, 161, 207, 211, 2, 130, 136, 237, 26, 45,
          206, 197, 206, 89, 129, 75, 240, 135, 180, 249, 87, 42, 180, 28, 197, 239>>>>,
      <<457, 450,
        <<245, 191, 213, 134, 62, 180, 139, 12, 152, 248, 7, 255, 147, 40, 13, 145,
          2, 1, 101, 50, 156, 173, 55, 145, 111, 38, 180, 171, 89, 64, 78, 122>>>>,
      <<1, 458,
        <<231, 89, 245, 235, 225, 30, 130, 25, 108, 201, 60, 62, 172, 91, 114, 185,
          145, 119, 146, 251, 104, 86, 86, 134, 159, 50, 52, 8, 212, 246, 121, 189>>>>,
      <<2, 458,
        <<104, 178, 30, 233, 205, 156, 232, 202, 151, 163, 114, 32, 82, 33, 210, 12,
          98, 105, 30, 54, 57, 122, 246, 251, 146, 150, 149, 172, 121, 188, 168, 177>>>>,
      <<3, 458,
        <<202, 8, 216, 215, 70, 62, 225, 126, 51, 146, 45, 166, 178, 81, 244, 94,
          74, 148, 137, 155, 133, 44, 55, 170, 166, 124, 133, 254, 13, 190, 186, 232>>>>,
      <<4, 458,
        <<247, 117, 198, 146, 166, 55, 27, 137, 232, 217, 154, 243, 143, 144, 36, 127,
          211, 6, 247, 251, 199, 250, 131, 226, 159, 102, 0, 40, 86, 174, 236, 97>>>>,
      <<33, 458,
        <<3, 169, 16, 100, 158, 67, 21, 152, 76, 142, 90, 82, 110, 24, 41, 76,
          99, 91, 21, 205, 76, 62, 51, 164, 104, 247, 184, 62, 239, 73, 148, 235>>>>,
      <<34, 458,
        <<90, 167, 16, 26, 67, 8, 163, 154, 113, 63, 130, 197, 235, 79, 72, 227,
          16, 78, 110, 232, 196, 207, 131, 151, 153, 51, 56, 255, 116, 183, 177, 101>>>>,
      <<36, 458,
        <<188, 63, 213, 131, 16, 113, 31, 40, 188, 175, 247, 85, 164, 84, 103, 112,
          242, 232, 169, 84, 173, 134, 251, 130, 42, 130, 2, 33, 176, 53, 143, 191>>>>,
      <<46, 458,
        <<207, 56, 98, 170, 87, 178, 221, 17, 81, 146, 141, 237, 232, 110, 169, 83,
          59, 187, 144, 237, 58, 50, 220, 150, 18, 255, 193, 17, 107, 62, 69, 50>>>>,
      <<450, 458,
        <<135, 24, 109, 103, 41, 109, 113, 34, 32, 117, 122, 63, 10, 44, 200, 250,
          1, 218, 158, 70, 9, 27, 112, 134, 181, 168, 45, 237, 137, 71, 177, 78>>>>,
      <<496, 250,
        <<112, 195, 218, 172, 167, 3, 157, 53, 248, 11, 30, 170, 67, 32, 237, 57,
          111, 136, 26, 7, 10, 48, 82, 143, 156, 75, 204, 7, 245, 146, 76, 111>>>>,
      <<496, 258,
        <<58, 187, 227, 115, 210, 236, 250, 143, 247, 137, 213, 83, 8, 65, 19, 116,
          119, 115, 91, 164, 26, 5, 71, 194, 91, 1, 129, 159, 104, 48, 220, 111>>>>,
      <<496, 266,
        <<8, 18, 127, 121, 39, 100, 70, 88, 161, 153, 40, 81, 9, 122, 220, 208,
          88, 128, 254, 243, 197, 73, 169, 180, 204, 143, 59, 62, 203, 158, 124, 15>>>>,
      <<497, 232,
        <<120, 151, 161, 87, 24, 208, 244, 128, 251, 152, 72, 216, 96, 68, 211, 112,
          239, 212, 116, 118, 5, 18, 38, 243, 203, 93, 232, 174, 17, 192, 107, 157>>>>,
      <<498, 232,
        <<67, 35, 131, 81, 47, 209, 58, 188, 224, 245, 50, 9, 124, 91, 68, 43,
          187, 135, 44, 217, 220, 99, 47, 107, 254, 126, 204, 119, 85, 53, 125, 13>>>>,
      <<450, 509,
        <<194, 167, 40, 73, 206, 118, 19, 82, 50, 197, 48, 214, 82, 48, 31, 13,
          87, 232, 68, 154, 78, 25, 88, 210, 212, 46, 232, 43, 225, 30, 163, 169>>>>,
      <<299, 510,
        <<235, 16, 12, 239, 29, 54, 157, 148, 217, 71, 48, 25, 12, 83, 184, 68,
          98, 245, 178, 10, 215, 158, 125, 190, 67, 104, 254, 137, 245, 63, 33, 191>>>>,
      <<319, 510,
        <<67, 192, 39, 76, 52, 33, 214, 83, 6, 173, 11, 157, 250, 232, 87, 146,
          214, 182, 206, 219, 122, 135, 100, 60, 45, 191, 52, 174, 189, 20, 33, 187>>>>,
      <<340, 510,
        <<125, 94, 213, 10, 232, 188, 189, 113, 229, 100, 198, 208, 109, 189, 241, 9,
          156, 199, 64, 8, 152, 189, 90, 201, 216, 159, 253, 109, 109, 30, 119, 158>>>>,
      <<238, 511,
        <<189, 38, 172, 63, 228, 181, 97, 128, 131, 16, 81, 218, 50, 29, 92, 134,
          11, 167, 184, 52, 211, 243, 75, 47, 159, 142, 115, 180, 56, 221, 120, 24>>>>,
      <<250, 511,
        <<231, 23, 22, 65, 89, 52, 106, 253, 86, 16, 245, 51, 66, 177, 222, 171,
          111, 24, 253, 11, 34, 44, 192, 104, 191, 202, 172, 81, 0, 63, 6, 49>>>>,
      <<258, 511,
        <<2, 109, 54, 223, 22, 45, 198, 192, 183, 145, 70, 146, 182, 67, 236, 103,
          0, 43, 8, 116, 188, 130, 43, 244, 154, 104, 147, 24, 44, 244, 33, 58>>>>,
      <<299, 512,
        <<184, 153, 227, 75, 66, 120, 81, 131, 174, 47, 238, 7, 74, 0, 14, 100,
          194, 35, 66, 125, 58, 31, 5, 242, 69, 131, 82, 42, 109, 188, 119, 130>>>>,
      <<319, 512,
        <<2, 200, 205, 241, 51, 147, 38, 241, 253, 84, 170, 213, 25, 139, 73, 91,
          38, 90, 37, 109, 156, 136, 15, 3, 144, 67, 39, 97, 95, 82, 178, 34>>>>,
      <<340, 512,
        <<181, 234, 220, 181, 214, 24, 148, 144, 106, 200, 225, 203, 236, 101, 118, 62,
          145, 76, 215, 151, 144, 177, 232, 87, 184, 58, 166, 245, 190, 84, 243, 254>>>>,
      <<299, 515,
        <<225, 94, 8, 110, 139, 68, 252, 215, 98, 174, 144, 234, 140, 218, 99, 249,
          117, 160, 206, 156, 255, 32, 43, 248, 200, 132, 181, 154, 177, 217, 178, 36>>>>,
      <<319, 515,
        <<155, 34, 180, 188, 87, 53, 67, 36, 132, 197, 160, 40, 74, 86, 215, 5,
          19, 240, 69, 106, 100, 135, 135, 244, 226, 39, 34, 170, 167, 172, 42, 164>>>>,
      <<340, 515,
        <<31, 150, 106, 236, 111, 64, 221, 115, 115, 39, 32, 146, 40, 192, 157, 133,
          108, 165, 151, 77, 158, 94, 54, 7, 35, 58, 177, 219, 68, 93, 181, 103>>>>,
      <<238, 517,
        <<216, 48, 67, 145, 156, 10, 199, 94, 194, 147, 124, 47, 93, 22, 87, 247,
          160, 233, 132, 118, 221, 96, 82, 28, 58, 229, 25, 111, 25, 53, 227, 40>>>>,
      <<250, 517,
        <<48, 84, 110, 99, 28, 129, 43, 111, 102, 33, 102, 121, 154, 221, 204, 13,
          56, 24, 124, 71, 38, 22, 155, 92, 104, 114, 190, 50, 145, 247, 99, 24>>>>,
      <<258, 517,
        <<119, 73, 34, 175, 86, 156, 38, 226, 15, 57, 19, 142, 176, 215, 60, 14,
          23, 13, 86, 134, 154, 233, 50, 90, 81, 116, 132, 215, 210, 230, 254, 93>>>>,
      <<232, 518,
        <<30, 235, 11, 188, 183, 250, 244, 198, 0, 21, 105, 139, 134, 255, 117, 138,
          55, 228, 170, 82, 124, 20, 106, 254, 54, 34, 251, 184, 121, 184, 218, 150>>>>,
      <<238, 519,
        <<83, 138, 144, 100, 94, 29, 88, 22, 39, 233, 34, 94, 7, 18, 135, 10,
          255, 231, 185, 161, 157, 33, 154, 191, 96, 220, 64, 45, 138, 236, 249, 41>>>>,
      <<250, 519,
        <<10, 49, 86, 137, 231, 109, 154, 73, 30, 252, 33, 129, 47, 185, 30, 108,
          246, 115, 126, 225, 253, 136, 102, 49, 224, 105, 226, 224, 48, 81, 67, 167>>>>,
      <<258, 519,
        <<247, 161, 86, 234, 186, 242, 73, 249, 163, 180, 110, 32, 107, 96, 211, 84,
          80, 176, 52, 9, 229, 254, 177, 210, 41, 127, 253, 136, 135, 214, 169, 9>>>>,
      <<450, 520,
        <<224, 200, 229, 5, 18, 129, 40, 41, 4, 8, 243, 51, 244, 66, 165, 80,
          254, 180, 239, 117, 165, 219, 176, 185, 120, 93, 103, 87, 221, 76, 113, 183>>>>,
      <<535, 310,
        <<138, 247, 41, 101, 127, 164, 175, 65, 116, 56, 227, 232, 208, 105, 122, 32,
          10, 163, 250, 96, 216, 35, 72, 243, 192, 21, 133, 134, 138, 238, 177, 196>>>>,
      <<535, 352,
        <<12, 183, 175, 227, 79, 52, 56, 108, 189, 65, 116, 193, 233, 72, 48, 199,
          133, 154, 109, 9, 93, 144, 171, 17, 77, 181, 111, 204, 74, 183, 33, 122>>>>,
      <<535, 380,
        <<117, 135, 122, 228, 183, 98, 95, 193, 128, 213, 252, 248, 93, 141, 102, 242,
          237, 214, 148, 71, 26, 157, 238, 105, 43, 158, 26, 74, 160, 26, 17, 223>>>>,
      <<536, 250,
        <<216, 18, 184, 69, 171, 249, 192, 148, 21, 155, 184, 175, 153, 198, 82, 163,
          65, 12, 184, 65, 124, 157, 64, 49, 196, 192, 215, 158, 187, 251, 50, 228>>>>,
      <<536, 258,
        <<162, 96, 36, 106, 71, 124, 57, 238, 170, 159, 215, 85, 64, 91, 89, 140,
          210, 87, 132, 245, 88, 255, 198, 138, 215, 197, 191, 113, 198, 80, 242, 21>>>>,
      <<536, 266,
        <<23, 223, 5, 113, 205, 43, 33, 248, 133, 55, 81, 243, 44, 79, 56, 12,
          219, 123, 115, 156, 66, 143, 221, 180, 202, 177, 88, 41, 223, 228, 197, 132>>>>,
      <<537, 250,
        <<235, 63, 244, 13, 125, 35, 210, 242, 191, 203, 50, 101, 11, 102, 52, 167,
          94, 123, 161, 33, 166, 94, 29, 1, 40, 227, 210, 112, 233, 14, 239, 197>>>>,
      <<537, 258,
        <<140, 74, 220, 7, 56, 229, 175, 125, 115, 135, 40, 175, 98, 223, 173, 28,
          137, 34, 30, 56, 107, 127, 18, 2, 102, 77, 245, 164, 74, 185, 235, 34>>>>,
      <<537, 266,
        <<199, 22, 164, 195, 15, 100, 127, 168, 113, 164, 5, 76, 56, 5, 242, 74,
          129, 77, 181, 117, 126, 154, 126, 184, 226, 183, 39, 165, 85, 253, 79, 28>>>>,
      <<538, 232,
        <<231, 222, 94, 51, 74, 176, 80, 13, 230, 111, 87, 189, 139, 100, 44, 71,
          18, 10, 0, 26, 36, 73, 59, 113, 101, 12, 175, 73, 92, 24, 68, 130>>>>,
      <<450, 539,
        <<148, 125, 117, 45, 148, 199, 22, 105, 200, 108, 66, 37, 78, 141, 51, 42,
          77, 73, 108, 105, 77, 87, 23, 199, 185, 238, 148, 96, 198, 173, 84, 31>>>>,
      <<299, 540,
        <<30, 50, 5, 141, 205, 178, 14, 96, 208, 106, 74, 208, 149, 127, 100, 48,
          244, 206, 33, 188, 188, 216, 86, 134, 250, 133, 247, 201, 92, 231, 143, 54>>>>,
      <<319, 540,
        <<142, 226, 175, 205, 130, 34, 206, 117, 248, 190, 120, 52, 79, 131, 74, 245,
          174, 138, 85, 107, 3, 219, 52, 159, 232, 103, 123, 139, 251, 235, 35, 158>>>>,
      <<340, 540,
        <<148, 28, 227, 193, 242, 126, 115, 189, 212, 245, 36, 181, 25, 49, 182, 251,
          171, 140, 194, 204, 74, 6, 139, 109, 82, 115, 100, 197, 207, 48, 242, 50>>>>,
      <<450, 541,
        <<236, 36, 239, 182, 199, 71, 15, 48, 181, 175, 74, 117, 216, 207, 85, 20,
          14, 222, 171, 128, 87, 181, 115, 102, 130, 214, 38, 65, 214, 131, 136, 135>>>>,
      <<450, 542,
        <<51, 71, 114, 236, 29, 138, 112, 248, 47, 187, 33, 207, 31, 24, 55, 113,
          201, 209, 95, 205, 247, 132, 214, 107, 196, 48, 192, 146, 1, 44, 178, 128>>>>,
      <<299, 546,
        <<109, 14, 4, 178, 236, 56, 150, 155, 133, 227, 188, 239, 23, 53, 156, 147,
          186, 20, 28, 67, 152, 60, 230, 32, 67, 226, 179, 151, 1, 200, 158, 130>>>>,
      <<319, 546,
        <<201, 160, 126, 190, 118, 50, 194, 95, 132, 154, 37, 145, 150, 187, 107, 78,
          108, 179, 155, 198, 73, 192, 200, 36, 101, 109, 80, 84, 80, 166, 42, 132>>>>,
      <<340, 546,
        <<208, 118, 167, 195, 98, 83, 211, 129, 247, 173, 44, 90, 48, 82, 154, 43,
          29, 140, 218, 113, 37, 31, 106, 138, 241, 238, 53, 161, 85, 236, 14, 216>>>>,
      <<238, 547,
        <<14, 1, 222, 124, 91, 158, 27, 220, 84, 52, 22, 100, 59, 186, 238, 216,
          68, 52, 10, 102, 115, 10, 53, 195, 73, 64, 44, 243, 109, 6, 202, 155>>>>,
      <<250, 547,
        <<176, 244, 216, 37, 195, 95, 176, 210, 180, 9, 88, 107, 139, 185, 171, 122,
          33, 91, 100, 79, 151, 246, 99, 96, 176, 83, 234, 232, 197, 75, 166, 196>>>>,
      <<258, 547,
        <<100, 73, 205, 95, 46, 5, 191, 143, 225, 66, 189, 60, 131, 173, 87, 107,
          203, 99, 140, 21, 213, 89, 82, 74, 97, 48, 203, 90, 33, 93, 17, 87>>>>,
      <<299, 548,
        <<236, 162, 60, 67, 37, 34, 72, 21, 170, 206, 72, 231, 50, 97, 10, 146,
          4, 13, 116, 209, 115, 212, 56, 38, 86, 206, 128, 178, 181, 116, 202, 134>>>>,
      <<319, 548,
        <<65, 107, 254, 155, 159, 70, 118, 75, 58, 45, 192, 191, 207, 17, 92, 155,
          148, 114, 145, 116, 58, 8, 163, 219, 235, 83, 161, 77, 61, 12, 184, 137>>>>,
      <<340, 548,
        <<51, 253, 103, 37, 115, 19, 156, 169, 131, 155, 53, 69, 22, 114, 137, 86,
          61, 43, 237, 150, 105, 249, 127, 205, 46, 137, 160, 0, 112, 158, 8, 70>>>>,
      <<551, 1,
        <<148, 140, 176, 216, 66, 233, 63, 113, 154, 242, 51, 154, 46, 156, 41, 230,
          17, 229, 215, 167, 31, 223, 17, 41, 211, 110, 92, 166, 241, 146, 242, 87>>>>,
      <<551, 2,
        <<97, 28, 207, 147, 7, 192, 249, 231, 154, 228, 175, 33, 111, 128, 180, 93,
          245, 241, 86, 65, 145, 44, 181, 132, 74, 133, 248, 254, 243, 248, 157, 68>>>>,
      <<551, 3,
        <<126, 190, 54, 141, 71, 220, 203, 239, 202, 232, 77, 64, 182, 110, 21, 37,
          253, 110, 166, 107, 92, 74, 154, 63, 246, 74, 73, 100, 66, 177, 113, 70>>>>,
      <<551, 4,
        <<107, 86, 59, 213, 74, 21, 1, 9, 150, 0, 145, 128, 45, 16, 211, 171,
          200, 155, 67, 166, 59, 121, 247, 219, 222, 31, 145, 239, 156, 170, 67, 182>>>>,
      <<551, 5,
        <<238, 199, 246, 95, 113, 212, 119, 68, 69, 232, 183, 241, 5, 209, 122, 53,
          224, 93, 179, 33, 52, 173, 227, 34, 83, 203, 66, 27, 197, 128, 223, 67>>>>,
      <<551, 6,
        <<124, 219, 230, 105, 232, 237, 214, 88, 186, 248, 24, 28, 253, 1, 142, 182,
          77, 44, 74, 21, 64, 174, 50, 196, 179, 163, 135, 234, 236, 68, 52, 213>>>>,
      <<551, 7,
        <<127, 93, 131, 160, 222, 196, 202, 36, 103, 105, 37, 128, 237, 199, 255, 17,
          198, 150, 153, 245, 4, 125, 45, 133, 43, 150, 10, 143, 218, 65, 238, 9>>>>,
      <<551, 8,
        <<27, 64, 99, 192, 222, 127, 36, 52, 106, 88, 117, 202, 130, 51, 182, 130,
          59, 118, 27, 104, 16, 99, 82, 44, 253, 35, 15, 105, 198, 60, 220, 106>>>>,
      <<551, 9,
        <<5, 112, 10, 76, 145, 204, 214, 84, 135, 149, 209, 163, 207, 73, 118, 148,
          127, 240, 200, 233, 249, 230, 236, 186, 230, 99, 160, 221, 82, 109, 66, 219>>>>,
      <<551, 33,
        <<76, 149, 49, 86, 25, 49, 76, 250, 92, 63, 106, 241, 212, 207, 170, 113,
          98, 124, 79, 250, 192, 25, 144, 115, 161, 186, 164, 48, 145, 135, 185, 20>>>>,
      <<551, 34,
        <<192, 27, 155, 154, 131, 198, 207, 154, 138, 20, 135, 240, 212, 247, 189, 54,
          61, 15, 165, 13, 102, 116, 196, 96, 206, 161, 133, 214, 6, 203, 143, 249>>>>,
      <<551, 36,
        <<197, 168, 56, 81, 108, 115, 201, 44, 193, 52, 184, 12, 255, 148, 209, 253,
          164, 155, 143, 228, 188, 63, 92, 85, 91, 36, 78, 194, 146, 54, 89, 214>>>>,
      <<551, 46,
        <<185, 39, 144, 77, 138, 233, 57, 169, 239, 101, 125, 86, 45, 232, 38, 37,
          228, 211, 53, 14, 206, 20, 37, 183, 243, 164, 113, 127, 54, 243, 177, 216>>>>,
      <<551, 64,
        <<111, 77, 109, 79, 73, 100, 217, 27, 175, 20, 171, 224, 180, 181, 171, 212,
          162, 213, 252, 48, 199, 62, 28, 136, 58, 19, 172, 68, 81, 116, 203, 206>>>>,
      <<551, 90,
        <<132, 23, 196, 157, 251, 120, 135, 247, 243, 79, 248, 4, 152, 83, 231, 244,
          42, 73, 31, 163, 116, 13, 8, 131, 0, 193, 65, 158, 3, 172, 28, 132>>>>,
      <<551, 108,
        <<79, 39, 80, 158, 142, 136, 168, 188, 164, 25, 50, 153, 36, 220, 82, 99,
          209, 42, 156, 234, 128, 143, 66, 57, 17, 134, 54, 124, 75, 7, 85, 88>>>>,
      <<551, 450,
        <<104, 116, 230, 215, 227, 128, 94, 72, 207, 65, 245, 25, 83, 162, 184, 6,
          21, 220, 140, 219, 180, 30, 101, 244, 37, 132, 123, 205, 66, 250, 119, 235>>>>,
      <<450, 552,
        <<109, 155, 52, 103, 13, 92, 254, 99, 62, 136, 86, 98, 212, 179, 116, 86,
          158, 116, 75, 254, 215, 108, 192, 92, 113, 6, 86, 97, 22, 95, 192, 163>>>>,
      <<567, 498,
        <<199, 90, 22, 172, 188, 119, 113, 33, 221, 227, 178, 239, 67, 218, 94, 235,
          231, 194, 159, 70, 76, 46, 64, 105, 77, 116, 14, 249, 198, 251, 174, 64>>>>,
      <<568, 310,
        <<50, 97, 98, 28, 212, 225, 112, 159, 252, 160, 90, 224, 132, 108, 120, 136,
          240, 230, 102, 13, 199, 221, 245, 232, 74, 123, 67, 77, 15, 27, 242, 0>>>>,
      <<568, 352,
        <<249, 220, 111, 65, 215, 237, 9, 169, 178, 109, 189, 238, 5, 132, 186, 58,
          215, 32, 141, 74, 238, 220, 49, 127, 89, 195, 79, 224, 251, 30, 104, 197>>>>,
      <<568, 380,
        <<203, 151, 35, 34, 247, 105, 112, 158, 8, 33, 214, 82, 150, 49, 92, 199,
          145, 156, 100, 121, 242, 60, 236, 173, 50, 182, 119, 251, 59, 27, 244, 139>>>>,
      <<569, 310,
        <<135, 69, 146, 247, 152, 181, 145, 171, 50, 185, 128, 201, 121, 16, 123, 126,
          34, 107, 122, 232, 114, 3, 6, 61, 81, 122, 166, 82, 80, 203, 98, 143>>>>,
      <<569, 352,
        <<151, 233, 168, 99, 110, 230, 54, 27, 76, 39, 36, 68, 76, 61, 158, 106,
          109, 186, 244, 27, 177, 13, 83, 6, 237, 106, 119, 202, 7, 68, 49, 25>>>>,
      <<569, 380,
        <<109, 16, 238, 213, 71, 243, 175, 37, 102, 69, 219, 165, 216, 77, 29, 244,
          38, 151, 136, 87, 118, 47, 81, 1, 130, 170, 137, 85, 100, 77, 59, 181>>>>,
      <<570, 250,
        <<148, 218, 1, 84, 165, 79, 169, 239, 135, 171, 213, 44, 187, 23, 226, 94,
          91, 167, 220, 233, 94, 79, 163, 80, 167, 14, 185, 169, 152, 41, 64, 65>>>>,
      <<570, 258,
        <<193, 166, 206, 56, 148, 208, 63, 141, 187, 123, 139, 82, 193, 171, 234, 170,
          24, 219, 214, 202, 218, 226, 87, 49, 167, 23, 211, 34, 113, 143, 247, 234>>>>,
      <<570, 266,
        <<187, 167, 141, 58, 74, 138, 29, 186, 47, 219, 200, 243, 223, 252, 113, 125,
          57, 139, 102, 93, 223, 244, 194, 177, 124, 63, 26, 81, 109, 74, 167, 183>>>>,
      <<450, 571,
        <<126, 57, 10, 141, 182, 15, 88, 3, 164, 202, 65, 247, 152, 90, 235, 209,
          119, 193, 246, 224, 96, 107, 202, 169, 12, 167, 249, 94, 83, 215, 67, 89>>>>,
      <<450, 572,
        <<173, 110, 6, 130, 20, 157, 101, 119, 36, 213, 65, 167, 191, 2, 159, 158,
          37, 138, 42, 40, 71, 181, 251, 247, 126, 244, 14, 147, 152, 184, 177, 194>>>>,
      <<450, 573,
        <<247, 118, 69, 232, 151, 97, 54, 176, 136, 62, 106, 201, 84, 5, 248, 15,
          19, 249, 51, 254, 170, 131, 243, 118, 122, 186, 69, 19, 121, 223, 107, 139>>>>,
      <<450, 574,
        <<206, 154, 198, 164, 47, 245, 213, 33, 13, 7, 30, 51, 140, 119, 110, 194,
          216, 112, 111, 158, 104, 230, 76, 127, 195, 197, 253, 93, 178, 27, 126, 51>>>>,
      <<450, 575,
        <<230, 71, 40, 49, 122, 242, 237, 239, 236, 194, 119, 220, 136, 127, 225, 144,
          177, 101, 192, 171, 242, 55, 238, 62, 9, 129, 95, 3, 16, 193, 152, 162>>>>,
      <<450, 576,
        <<161, 181, 32, 226, 68, 198, 131, 84, 118, 230, 154, 141, 1, 242, 40, 93,
          98, 148, 52, 183, 252, 57, 237, 84, 130, 215, 40, 244, 157, 162, 27, 96>>>>,
      <<450, 577,
        <<247, 188, 242, 145, 163, 245, 202, 228, 131, 23, 44, 24, 79, 138, 28, 33,
          189, 31, 56, 73, 157, 216, 128, 208, 70, 201, 60, 74, 242, 201, 72, 183>>>>,
      <<450, 578,
        <<194, 56, 237, 168, 178, 238, 221, 180, 63, 221, 49, 187, 39, 98, 150, 47,
          204, 24, 236, 46, 105, 103, 106, 47, 129, 48, 153, 171, 147, 0, 15, 175>>>>,
      <<299, 579,
        <<10, 239, 108, 249, 160, 99, 230, 234, 214, 218, 129, 210, 226, 119, 193, 171,
          117, 186, 151, 25, 171, 90, 170, 227, 156, 188, 147, 92, 127, 53, 101, 232>>>>,
      <<319, 579,
        <<144, 123, 250, 230, 158, 147, 120, 122, 159, 20, 171, 114, 84, 128, 93, 47,
          236, 187, 90, 5, 18, 237, 167, 130, 211, 242, 85, 23, 0, 70, 91, 166>>>>,
      <<320, 579,
        <<56, 124, 120, 3, 142, 63, 230, 166, 141, 65, 108, 48, 95, 148, 82, 247,
          254, 237, 216, 171, 154, 196, 73, 113, 45, 59, 125, 232, 142, 131, 104, 70>>>>,
      <<340, 579,
        <<86, 99, 206, 8, 158, 82, 239, 201, 78, 80, 19, 61, 223, 209, 165, 94,
          118, 87, 172, 182, 220, 234, 22, 224, 82, 223, 81, 232, 215, 179, 162, 214>>>>,
      <<363, 579,
        <<78, 29, 183, 48, 77, 78, 237, 1, 51, 26, 57, 213, 150, 7, 228, 182,
          94, 151, 218, 32, 190, 63, 90, 238, 17, 110, 144, 216, 38, 84, 92, 177>>>>,
      <<395, 579,
        <<85, 241, 16, 78, 190, 134, 22, 127, 119, 81, 177, 73, 199, 24, 141, 80,
          120, 202, 162, 76, 123, 194, 115, 38, 192, 3, 24, 210, 169, 18, 54, 115>>>>,
      <<450, 579,
        <<206, 102, 196, 161, 252, 235, 253, 232, 69, 223, 134, 174, 98, 137, 219, 121,
          34, 234, 152, 34, 71, 1, 167, 181, 38, 249, 8, 138, 133, 18, 138, 202>>>>,
      <<450, 580,
        <<186, 17, 235, 103, 33, 140, 19, 73, 254, 169, 111, 208, 41, 114, 191, 116,
          165, 101, 214, 64, 246, 148, 109, 18, 89, 228, 123, 57, 155, 15, 103, 252>>>>,
      <<450, 581,
        <<21, 23, 59, 218, 96, 156, 86, 240, 32, 39, 106, 90, 92, 65, 96, 107,
          177, 192, 99, 155, 176, 189, 84, 176, 50, 8, 102, 252, 21, 190, 186, 99>>>>,
      <<450, 582,
        <<249, 104, 220, 186, 109, 168, 111, 157, 62, 135, 157, 75, 14, 60, 104, 93,
          142, 31, 142, 139, 19, 33, 202, 230, 84, 228, 23, 116, 109, 50, 27, 53>>>>,
      <<450, 583,
        <<251, 144, 160, 78, 82, 169, 233, 2, 46, 184, 91, 28, 206, 224, 140, 122,
          10, 109, 240, 136, 45, 38, 144, 98, 96, 204, 131, 119, 96, 64, 160, 112>>>>,
      <<450, 584,
        <<85, 130, 194, 45, 169, 102, 67, 228, 172, 69, 31, 130, 54, 152, 159, 64,
          177, 147, 100, 180, 99, 86, 154, 74, 56, 93, 178, 244, 136, 10, 252, 120>>>>,
      <<450, 585,
        <<41, 254, 231, 26, 196, 79, 58, 152, 64, 16, 147, 97, 91, 49, 48, 243,
          177, 48, 195, 244, 92, 34, 158, 124, 116, 121, 72, 224, 158, 121, 101, 75>>>>,
      <<450, 586,
        <<187, 15, 117, 154, 50, 79, 56, 246, 60, 98, 190, 32, 57, 168, 211, 147,
          148, 211, 37, 171, 47, 182, 90, 22, 16, 111, 79, 174, 204, 183, 196, 92>>>>,
      <<450, 587,
        <<212, 205, 95, 158, 86, 238, 28, 216, 94, 212, 36, 245, 61, 54, 115, 248,
          90, 190, 227, 89, 80, 73, 152, 149, 126, 143, 16, 180, 59, 158, 193, 4>>>>,
      <<450, 602,
        <<58, 240, 138, 209, 17, 225, 60, 36, 219, 181, 125, 201, 109, 42, 11, 215,
          3, 188, 51, 3, 202, 238, 147, 171, 178, 167, 193, 68, 74, 145, 8, 61>>>>,
      <<450, 603,
        <<108, 215, 47, 170, 10, 158, 128, 171, 28, 128, 52, 54, 219, 200, 17, 146,
          103, 158, 131, 157, 190, 199, 113, 143, 188, 29, 167, 184, 19, 45, 207, 90>>>>,
      <<450, 604,
        <<53, 237, 68, 47, 248, 228, 178, 160, 48, 142, 184, 228, 236, 64, 136, 174,
          122, 107, 164, 11, 174, 212, 219, 162, 103, 41, 235, 18, 154, 184, 87, 116>>>>,
      <<450, 605,
        <<220, 13, 66, 84, 67, 119, 111, 147, 68, 233, 250, 158, 77, 130, 25, 194,
          56, 192, 227, 140, 49, 67, 204, 155, 208, 156, 84, 73, 103, 41, 201, 236>>>>,
      <<606, 498,
        <<249, 136, 46, 198, 176, 83, 61, 168, 98, 173, 224, 140, 2, 98, 130, 241,
          161, 33, 223, 223, 167, 178, 45, 48, 31, 71, 162, 159, 92, 79, 97, 22>>>>,
      <<607, 498,
        <<30, 185, 48, 44, 223, 40, 211, 115, 35, 227, 16, 178, 62, 49, 66, 137,
          237, 15, 134, 118, 115, 251, 167, 35, 129, 91, 91, 150, 42, 76, 163, 252>>>>,
      <<608, 310,
        <<85, 220, 80, 86, 10, 86, 21, 215, 103, 119, 240, 13, 153, 62, 241, 37,
          165, 251, 133, 146, 65, 152, 35, 69, 228, 4, 171, 210, 32, 11, 91, 69>>>>,
      <<608, 352,
        <<98, 80, 79, 21, 232, 5, 180, 37, 79, 228, 39, 166, 58, 239, 15, 128,
          246, 188, 80, 176, 41, 255, 215, 238, 126, 136, 128, 19, 186, 191, 191, 221>>>>,
      <<608, 380,
        <<206, 148, 11, 129, 95, 119, 235, 58, 48, 136, 1, 213, 57, 116, 220, 96,
          155, 82, 37, 33, 144, 25, 50, 209, 127, 221, 232, 88, 187, 76, 212, 208>>>>,
      <<450, 609,
        <<41, 135, 249, 70, 57, 208, 116, 108, 19, 186, 193, 236, 100, 114, 174, 0,
          197, 75, 58, 118, 36, 244, 178, 94, 239, 71, 138, 212, 81, 206, 221, 54>>>>,
      <<36, 615,
        <<243, 148, 211, 154, 233, 75, 17, 59, 84, 51, 67, 69, 199, 47, 13, 40,
          201, 59, 207, 185, 189, 141, 8, 204, 206, 83, 149, 120, 249, 78, 127, 100>>>>,
      <<38, 615,
        <<54, 41, 59, 14, 201, 254, 65, 138, 249, 167, 70, 245, 84, 233, 85, 97,
          13, 86, 76, 142, 49, 64, 123, 23, 39, 175, 17, 70, 35, 218, 15, 15>>>>,
      <<42, 615,
        <<93, 143, 65, 209, 80, 105, 119, 19, 94, 115, 192, 226, 103, 191, 170, 76,
          192, 58, 157, 77, 5, 156, 66, 56, 134, 65, 54, 124, 54, 190, 85, 219>>>>,
      <<48, 615,
        <<155, 169, 109, 164, 116, 140, 197, 238, 34, 207, 115, 245, 222, 16, 126, 191,
          186, 235, 221, 193, 62, 110, 187, 144, 30, 128, 78, 222, 54, 103, 191, 130>>>>,
      <<56, 615,
        <<223, 152, 161, 214, 162, 225, 74, 228, 216, 118, 109, 228, 242, 73, 34, 151,
          205, 99, 99, 218, 64, 222, 98, 155, 180, 246, 29, 210, 29, 196, 208, 110>>>>,
      <<66, 615,
        <<89, 26, 203, 119, 28, 29, 213, 178, 53, 201, 91, 154, 118, 144, 1, 175,
          238, 2, 77, 186, 160, 92, 78, 96, 128, 202, 245, 241, 125, 253, 146, 106>>>>,
      <<78, 615,
        <<152, 231, 241, 104, 114, 164, 84, 34, 213, 197, 60, 104, 161, 199, 135, 157,
          5, 168, 78, 216, 207, 196, 21, 130, 216, 252, 220, 154, 167, 98, 130, 140>>>>,
      <<92, 615,
        <<5, 18, 53, 194, 60, 252, 19, 84, 241, 33, 211, 113, 20, 61, 250, 205,
          5, 214, 175, 86, 165, 255, 174, 23, 108, 163, 97, 140, 19, 120, 189, 214>>>>,
      <<108, 615,
        <<8, 7, 75, 231, 129, 215, 197, 31, 137, 234, 20, 86, 180, 76, 44, 51,
          235, 114, 63, 17, 108, 206, 82, 92, 97, 129, 129, 46, 174, 214, 171, 182>>>>,
      <<211, 615,
        <<111, 122, 46, 180, 123, 141, 221, 130, 64, 123, 136, 88, 28, 208, 102, 46,
          52, 130, 183, 158, 241, 77, 247, 47, 44, 184, 38, 33, 177, 124, 222, 167>>>>,
      <<218, 615,
        <<181, 132, 196, 109, 1, 23, 117, 97, 100, 154, 223, 234, 21, 2, 1, 117,
          83, 81, 141, 13, 233, 217, 22, 132, 162, 142, 230, 24, 85, 223, 42, 168>>>>,
      <<240, 615,
        <<47, 52, 185, 70, 193, 142, 26, 251, 118, 124, 229, 135, 214, 114, 151, 93,
          68, 62, 16, 189, 195, 206, 139, 8, 172, 141, 183, 22, 27, 236, 81, 166>>>>,
      <<450, 615,
        <<185, 206, 227, 85, 114, 52, 62, 234, 215, 104, 125, 208, 64, 51, 240, 19,
          246, 105, 51, 16, 217, 13, 142, 28, 113, 226, 213, 141, 74, 196, 244, 149>>>>,
      <<457, 615,
        <<213, 84, 203, 91, 146, 214, 115, 143, 73, 141, 59, 243, 24, 198, 177, 215,
          93, 184, 209, 158, 75, 190, 87, 108, 180, 200, 209, 121, 182, 135, 116, 28>>>>,
      <<551, 615,
        <<69, 6, 46, 241, 216, 5, 150, 15, 202, 192, 179, 64, 18, 190, 35, 17,
          8, 174, 230, 201, 227, 64, 255, 40, 163, 182, 215, 216, 22, 164, 175, 75>>>>,
      <<615, 2,
        <<101, 62, 131, 160, 144, 34, 132, 140, 237, 58, 112, 83, 227, 232, 178, 120,
          53, 96, 93, 36, 129, 99, 166, 226, 162, 89, 120, 41, 100, 217, 97, 30>>>>,
      <<618, 1,
        <<41, 54, 248, 137, 26, 56, 223, 155, 226, 49, 202, 148, 42, 96, 38, 23,
          215, 132, 142, 78, 224, 218, 166, 169, 128, 58, 208, 81, 142, 116, 147, 133>>>>,
      <<618, 2,
        <<222, 215, 198, 181, 22, 248, 232, 243, 59, 61, 190, 99, 177, 46, 173, 159,
          79, 101, 253, 2, 88, 127, 4, 159, 69, 76, 166, 221, 13, 252, 51, 106>>>>,
      <<618, 3,
        <<251, 161, 6, 62, 253, 25, 25, 157, 200, 171, 33, 166, 93, 153, 99, 211,
          204, 183, 19, 128, 2, 33, 133, 28, 107, 10, 15, 3, 95, 55, 235, 137>>>>,
      <<618, 4,
        <<90, 14, 190, 119, 42, 222, 43, 58, 236, 24, 239, 171, 185, 247, 64, 144,
          106, 20, 175, 206, 228, 94, 54, 131, 14, 176, 148, 184, 44, 185, 191, 252>>>>,
      <<618, 5,
        <<246, 28, 159, 214, 39, 62, 98, 195, 43, 122, 144, 157, 195, 37, 96, 167,
          81, 254, 166, 39, 171, 84, 210, 75, 255, 220, 173, 76, 18, 213, 177, 15>>>>,
      <<618, 6,
        <<15, 71, 176, 107, 82, 217, 208, 209, 134, 236, 189, 10, 21, 249, 219, 224,
          115, 99, 216, 189, 226, 165, 68, 185, 72, 24, 47, 14, 51, 62, 116, 239>>>>,
      <<618, 7,
        <<79, 233, 109, 248, 240, 136, 14, 143, 6, 187, 26, 192, 37, 193, 116, 67,
          69, 21, 39, 21, 224, 2, 204, 136, 172, 108, 171, 140, 148, 12, 1, 44>>>>,
      <<618, 8,
        <<164, 68, 100, 117, 100, 127, 47, 23, 18, 242, 217, 90, 1, 79, 135, 36,
          63, 224, 114, 172, 99, 0, 26, 219, 98, 50, 79, 146, 104, 239, 60, 13>>>>,
      <<618, 9,
        <<98, 179, 184, 7, 155, 182, 241, 70, 36, 17, 160, 156, 32, 44, 158, 4,
          137, 119, 130, 125, 14, 160, 192, 244, 252, 5, 164, 47, 242, 15, 64, 255>>>>,
      <<618, 33,
        <<200, 113, 31, 250, 94, 107, 247, 40, 53, 21, 63, 254, 202, 97, 110, 87,
          48, 71, 4, 18, 99, 44, 83, 251, 25, 222, 136, 133, 72, 103, 98, 124>>>>,
      <<618, 34,
        <<255, 11, 3, 226, 217, 144, 238, 28, 56, 109, 107, 240, 57, 46, 90, 236,
          96, 81, 26, 46, 98, 40, 170, 223, 247, 164, 59, 210, 68, 125, 201, 62>>>>,
      <<618, 36,
        <<32, 155, 19, 122, 89, 213, 86, 75, 208, 243, 214, 100, 124, 122, 153, 33,
          235, 138, 30, 16, 77, 22, 104, 7, 212, 208, 7, 73, 222, 45, 218, 253>>>>,
      <<618, 46,
        <<205, 211, 10, 63, 125, 155, 131, 98, 93, 93, 213, 127, 82, 205, 27, 50,
          69, 25, 86, 10, 75, 72, 112, 236, 156, 63, 230, 144, 36, 111, 68, 117>>>>,
      <<618, 64,
        <<51, 238, 143, 69, 198, 96, 3, 156, 47, 145, 59, 15, 50, 54, 28, 22,
          2, 101, 17, 244, 81, 171, 6, 88, 13, 150, 4, 89, 234, 125, 188, 239>>>>,
      <<618, 90,
        <<208, 131, 199, 13, 238, 209, 21, 205, 42, 203, 215, 139, 158, 79, 145, 169,
          7, 101, 172, 73, 162, 99, 141, 7, 79, 65, 136, 151, 152, 133, 163, 33>>>>,
      <<618, 108,
        <<35, 190, 202, 115, 22, 142, 176, 79, 132, 2, 206, 58, 213, 170, 129, 192,
          35, 229, 180, 126, 78, 4, 109, 62, 235, 85, 221, 87, 185, 53, 204, 77>>>>,
      <<618, 450,
        <<131, 173, 48, 214, 166, 9, 155, 9, 135, 5, 111, 127, 182, 216, 146, 205,
          168, 211, 121, 167, 241, 26, 29, 227, 127, 172, 23, 16, 57, 137, 90, 223>>>>,
      <<618, 615,
        <<64, 31, 127, 246, 83, 142, 65, 108, 150, 33, 254, 126, 10, 130, 250, 230,
          145, 207, 149, 156, 1, 15, 52, 16, 75, 204, 171, 228, 67, 140, 75, 128>>>>,
      <<634, 498,
        <<212, 75, 88, 227, 57, 135, 211, 127, 67, 28, 100, 89, 157, 177, 120, 141,
          63, 118, 85, 145, 254, 60, 213, 215, 252, 138, 113, 204, 50, 100, 248, 228>>>>,
      <<450, 635,
        <<130, 224, 212, 2, 190, 104, 150, 5, 159, 189, 214, 194, 59, 160, 113, 186,
          168, 167, 156, 35, 3, 17, 198, 236, 139, 163, 210, 32, 50, 43, 96, 62>>>>,
      <<450, 636,
        <<100, 104, 222, 217, 225, 43, 12, 238, 108, 26, 237, 242, 41, 157, 247, 32,
          77, 0, 145, 152, 79, 121, 47, 110, 172, 126, 163, 235, 68, 113, 245, 44>>>>,
      <<450, 637,
        <<249, 5, 202, 110, 11, 185, 105, 167, 128, 87, 123, 152, 173, 23, 137, 3,
          38, 30, 109, 226, 11, 193, 254, 144, 208, 95, 250, 110, 170, 171, 14, 62>>>>,
      <<450, 638,
        <<169, 48, 246, 178, 0, 150, 88, 154, 3, 20, 26, 213, 16, 193, 98, 42,
          26, 1, 246, 39, 152, 240, 58, 230, 18, 210, 4, 232, 207, 237, 20, 33>>>>,
      <<514, 638,
        <<194, 53, 67, 79, 142, 171, 149, 5, 104, 6, 254, 166, 112, 140, 248, 95,
          153, 30, 79, 36, 33, 123, 251, 132, 70, 96, 21, 219, 67, 151, 174, 73>>>>,
      <<516, 638,
        <<211, 208, 146, 27, 20, 25, 210, 64, 130, 196, 211, 253, 243, 107, 147, 183,
          117, 107, 47, 129, 36, 64, 7, 104, 196, 157, 27, 41, 177, 236, 213, 78>>>>,
      <<517, 638,
        <<199, 249, 2, 138, 69, 180, 67, 122, 156, 185, 214, 72, 166, 82, 3, 3,
          207, 222, 174, 120, 96, 85, 246, 242, 45, 11, 144, 196, 31, 202, 55, 65>>>>,
      <<518, 638,
        <<118, 169, 99, 89, 233, 73, 48, 150, 130, 156, 151, 22, 144, 6, 3, 154,
          110, 108, 122, 21, 251, 156, 255, 254, 217, 242, 241, 185, 36, 70, 26, 177>>>>,
      <<648, 1,
        <<144, 93, 22, 113, 87, 78, 214, 17, 240, 203, 88, 50, 109, 180, 181, 137,
          107, 23, 9, 146, 231, 16, 71, 201, 151, 123, 200, 146, 121, 244, 149, 244>>>>,
      <<648, 2,
        <<150, 19, 187, 80, 19, 136, 102, 207, 1, 72, 227, 36, 39, 156, 185, 66,
          233, 250, 213, 110, 244, 138, 76, 17, 214, 207, 109, 118, 18, 73, 46, 52>>>>,
      <<648, 3,
        <<118, 64, 84, 207, 126, 46, 33, 66, 94, 7, 59, 106, 148, 223, 161, 102,
          3, 36, 78, 194, 185, 219, 254, 179, 253, 76, 240, 143, 1, 145, 32, 159>>>>,
      <<648, 4,
        <<217, 160, 253, 91, 4, 167, 70, 60, 165, 115, 47, 191, 171, 102, 160, 142,
          167, 176, 170, 209, 135, 23, 5, 37, 154, 178, 14, 9, 173, 62, 119, 154>>>>,
      <<648, 5,
        <<43, 207, 63, 25, 98, 192, 214, 213, 170, 108, 176, 175, 45, 102, 2, 11,
          209, 198, 58, 158, 83, 37, 66, 169, 60, 17, 108, 242, 89, 79, 178, 140>>>>,
      <<648, 6,
        <<127, 229, 48, 210, 144, 45, 171, 111, 24, 112, 90, 176, 117, 187, 69, 32,
          97, 180, 237, 181, 188, 44, 91, 114, 14, 136, 115, 157, 97, 197, 94, 248>>>>,
      <<648, 7,
        <<201, 164, 2, 220, 250, 223, 66, 24, 31, 146, 25, 129, 220, 90, 237, 115,
          177, 12, 31, 179, 96, 158, 128, 38, 117, 246, 251, 64, 19, 81, 249, 144>>>>,
      <<648, 8,
        <<46, 234, 95, 188, 6, 180, 140, 163, 200, 69, 251, 116, 152, 104, 236, 243,
          28, 146, 187, 247, 143, 168, 119, 193, 224, 219, 180, 219, 150, 52, 156, 160>>>>,
      <<648, 9,
        <<49, 205, 170, 55, 199, 255, 228, 159, 114, 6, 69, 200, 78, 29, 8, 177,
          85, 115, 40, 91, 162, 62, 69, 217, 247, 244, 252, 179, 129, 73, 210, 173>>>>,
      <<648, 33,
        <<166, 222, 130, 56, 209, 181, 13, 51, 70, 144, 92, 12, 107, 19, 201, 249,
          80, 219, 67, 9, 250, 161, 150, 138, 60, 92, 99, 132, 16, 85, 121, 99>>>>,
      <<648, 34,
        <<181, 119, 233, 62, 51, 108, 234, 116, 118, 193, 177, 88, 93, 24, 144, 3,
          43, 10, 113, 174, 89, 18, 252, 244, 213, 26, 141, 74, 139, 139, 161, 161>>>>,
      <<648, 36,
        <<77, 150, 232, 35, 87, 178, 179, 66, 3, 140, 235, 165, 15, 119, 255, 53,
          12, 122, 18, 102, 49, 144, 54, 3, 131, 253, 89, 231, 29, 230, 95, 50>>>>,
      <<648, 46,
        <<51, 146, 15, 230, 121, 225, 185, 30, 131, 195, 205, 244, 227, 141, 34, 167,
          113, 248, 57, 182, 22, 121, 215, 6, 40, 115, 227, 157, 164, 219, 180, 112>>>>,
      <<648, 64,
        <<121, 249, 129, 82, 187, 15, 182, 35, 173, 70, 178, 83, 250, 130, 184, 66,
          4, 218, 77, 111, 230, 90, 119, 7, 35, 40, 180, 79, 251, 72, 221, 194>>>>,
      <<648, 90,
        <<149, 232, 29, 16, 159, 10, 241, 250, 233, 143, 103, 52, 46, 57, 128, 44,
          102, 59, 243, 0, 243, 211, 215, 215, 23, 255, 72, 20, 8, 39, 33, 21>>>>,
      <<648, 108,
        <<158, 62, 198, 55, 61, 227, 193, 183, 117, 162, 68, 152, 37, 243, 98, 18,
          37, 137, 189, 156, 201, 4, 188, 8, 49, 183, 163, 115, 203, 245, 171, 145>>>>,
      <<648, 450,
        <<200, 56, 220, 53, 58, 247, 66, 15, 249, 117, 252, 95, 130, 187, 13, 51,
          161, 108, 128, 61, 192, 20, 21, 169, 35, 156, 204, 232, 227, 235, 223, 212>>>>,
      <<648, 615,
        <<191, 185, 145, 245, 104, 157, 120, 193, 193, 199, 33, 93, 64, 240, 167, 91,
          0, 164, 192, 30, 175, 79, 172, 70, 105, 28, 237, 40, 131, 159, 113, 91>>>>,
      <<450, 663,
        <<15, 229, 254, 50, 25, 115, 209, 75, 53, 170, 155, 18, 243, 166, 234, 54,
          25, 59, 118, 244, 35, 210, 12, 227, 7, 107, 250, 243, 44, 228, 245, 211>>>>,
      <<543, 664,
        <<90, 88, 197, 123, 6, 128, 206, 102, 55, 42, 222, 212, 193, 120, 12, 148,
          92, 61, 30, 226, 61, 68, 198, 46, 195, 104, 136, 152, 33, 35, 144, 43>>>>,
      <<547, 664,
        <<84, 100, 0, 11, 74, 250, 144, 95, 244, 218, 65, 72, 48, 81, 253, 242,
          35, 154, 141, 189, 6, 64, 235, 170, 200, 125, 22, 228, 164, 102, 19, 136>>>>,
      <<579, 682,
        <<192, 101, 157, 190, 57, 197, 23, 86, 58, 68, 1, 37, 189, 11, 76, 75,
          80, 124, 239, 130, 65, 231, 124, 104, 216, 185, 139, 76, 46, 120, 37, 90>>>>,
      <<703, 608,
        <<76, 189, 39, 66, 66, 155, 10, 165, 133, 9, 90, 22, 199, 179, 24, 172,
          198, 91, 44, 182, 167, 60, 229, 8, 210, 104, 104, 101, 54, 67, 187, 187>>>>,
      <<450, 705,
        <<197, 72, 68, 11, 45, 252, 165, 149, 190, 183, 108, 9, 163, 21, 165, 113,
          147, 142, 40, 47, 110, 230, 14, 254, 236, 252, 217, 71, 121, 67, 62, 199>>>>,
      <<615, 705,
        <<1, 92, 108, 28, 115, 219, 124, 214, 66, 191, 92, 218, 75, 221, 99, 120,
          227, 117, 2, 233, 57, 225, 10, 124, 88, 65, 126, 151, 49, 233, 213, 87>>>>,
      <<706, 634,
        <<146, 15, 214, 166, 82, 41, 144, 99, 158, 196, 37, 164, 30, 89, 161, 149,
          240, 147, 182, 175, 146, 161, 67, 115, 66, 40, 253, 25, 28, 65, 53, 28>>>>,
      <<638, 707,
        <<98, 94, 196, 252, 98, 150, 59, 194, 157, 255, 190, 116, 15, 18, 216, 53,
          231, 101, 135, 133, 189, 255, 46, 147, 197, 57, 191, 86, 36, 41, 100, 88>>>>,
      <<708, 662,
        <<64, 2, 35, 109, 68, 180, 203, 215, 227, 174, 154, 31, 233, 249, 135, 68,
          135, 188, 57, 232, 119, 39, 158, 203, 69, 252, 185, 218, 28, 33, 98, 51>>>>,
      <<664, 709,
        <<58, 77, 150, 139, 126, 164, 40, 233, 170, 99, 83, 233, 3, 193, 253, 69,
          12, 232, 33, 161, 113, 243, 179, 17, 119, 69, 187, 82, 86, 28, 149, 64>>>>,
      <<710, 665,
        <<234, 78, 46, 88, 129, 157, 253, 140, 201, 213, 36, 168, 217, 208, 25, 57,
          38, 145, 16, 58, 187, 37, 94, 74, 245, 224, 135, 120, 189, 237, 36, 101>>>>,
      <<682, 711,
        <<121, 6, 225, 12, 16, 119, 194, 220, 121, 237, 251, 171, 61, 226, 28, 60,
          98, 165, 46, 121, 182, 152, 31, 2, 131, 86, 87, 211, 56, 34, 221, 47>>>>,
      <<712, 703,
        <<36, 225, 179, 133, 9, 248, 221, 152, 90, 244, 37, 214, 119, 211, 13, 174,
          235, 198, 43, 145, 25, 246, 204, 239, 194, 108, 225, 1, 177, 97, 61, 145>>>>,
      <<705, 713,
        <<159, 211, 57, 214, 100, 179, 187, 47, 21, 255, 198, 87, 2, 37, 112, 212,
          7, 12, 1, 64, 35, 181, 0, 242, 250, 182, 48, 233, 70, 130, 217, 188>>>>,
      <<714, 706,
        <<3, 35, 220, 60, 52, 179, 11, 64, 211, 31, 48, 48, 134, 15, 94, 48,
          66, 194, 157, 151, 251, 230, 30, 28, 81, 150, 108, 235, 54, 80, 61, 55>>>>,
      <<709, 717,
        <<241, 54, 250, 64, 153, 140, 245, 121, 15, 138, 178, 219, 39, 200, 68, 218,
          200, 108, 183, 150, 28, 239, 76, 20, 57, 252, 251, 247, 113, 127, 42, 130>>>>,
      <<711, 719,
        <<146, 19, 63, 105, 132, 224, 23, 212, 162, 106, 136, 19, 170, 148, 36, 39,
          26, 18, 212, 217, 133, 218, 98, 81, 39, 133, 178, 191, 14, 143, 108, 255>>>>,
      <<720, 712,
        <<220, 74, 174, 114, 241, 120, 40, 232, 98, 11, 199, 214, 233, 94, 241, 176,
          208, 85, 164, 173, 197, 220, 125, 245, 124, 182, 151, 71, 185, 238, 229, 105>>>>,
      <<713, 721,
        <<129, 39, 246, 166, 133, 114, 73, 53, 151, 242, 231, 244, 190, 90, 213, 48,
          126, 79, 113, 44, 193, 45, 191, 173, 64, 40, 206, 208, 140, 174, 233, 21>>>>,
      <<722, 714,
        <<63, 149, 2, 87, 58, 216, 189, 108, 12, 46, 79, 158, 64, 92, 82, 248,
          168, 52, 212, 93, 27, 178, 109, 120, 187, 177, 144, 132, 235, 235, 68, 231>>>>,
      <<715, 723,
        <<236, 169, 17, 16, 195, 151, 122, 2, 202, 172, 20, 32, 238, 1, 212, 243,
          199, 121, 0, 157, 85, 186, 95, 139, 92, 111, 87, 242, 109, 87, 117, 31>>>>,
      <<724, 716,
        <<248, 17, 132, 13, 71, 48, 237, 103, 123, 114, 139, 61, 203, 31, 203, 108,
          89, 109, 47, 232, 1, 123, 155, 226, 220, 191, 170, 129, 84, 29, 244, 43>>>>,
      <<717, 725,
        <<248, 148, 203, 128, 173, 147, 201, 182, 127, 54, 204, 169, 251, 238, 135, 227,
          210, 35, 243, 79, 230, 93, 210, 86, 89, 152, 166, 128, 73, 240, 15, 67>>>>,
      <<726, 718,
        <<183, 100, 218, 3, 171, 129, 7, 163, 88, 72, 28, 69, 252, 21, 161, 143,
          221, 134, 67, 16, 162, 100, 177, 7, 80, 107, 182, 10, 237, 70, 123, 66>>>>,
      <<719, 727,
        <<245, 110, 70, 4, 163, 223, 243, 175, 41, 36, 42, 100, 182, 206, 77, 101,
          99, 96, 221, 113, 121, 53, 80, 218, 188, 12, 174, 103, 255, 215, 95, 122>>>>,
      <<728, 720,
        <<189, 60, 217, 39, 38, 255, 23, 183, 240, 130, 203, 45, 9, 59, 95, 61,
          241, 190, 10, 18, 75, 136, 133, 34, 220, 81, 16, 236, 39, 115, 4, 86>>>>,
      <<721, 729,
        <<71, 47, 78, 172, 130, 168, 50, 154, 116, 108, 149, 112, 159, 186, 151, 44,
          109, 70, 10, 35, 134, 48, 157, 147, 231, 212, 245, 201, 150, 247, 25, 89>>>>,
      <<730, 722,
        <<94, 246, 46, 165, 151, 131, 152, 8, 167, 127, 125, 173, 200, 229, 176, 100,
          241, 212, 153, 144, 51, 29, 239, 12, 143, 53, 40, 187, 146, 159, 115, 59>>>>,
      <<731, 732,
        <<1, 165, 225, 164, 198, 127, 6, 175, 96, 112, 72, 240, 153, 51, 233, 250,
          151, 225, 243, 26, 54, 127, 187, 128, 166, 234, 200, 200, 63, 53, 253, 191>>>>,
      <<35, 998,
        <<237, 50, 247, 238, 101, 105, 27, 55, 134, 27, 1, 213, 64, 143, 54, 171,
          89, 89, 40, 26, 53, 94, 169, 202, 36, 155, 120, 130, 232, 107, 94, 215>>>>,
      <<1, 999,
        <<198, 96, 94, 25, 208, 32, 190, 30, 7, 1, 27, 180, 121, 223, 185, 44,
          238, 3, 18, 255, 82, 76, 210, 93, 64, 208, 8, 124, 42, 215, 178, 127>>>>,
      <<33, 999,
        <<156, 177, 124, 101, 222, 33, 244, 66, 140, 228, 2, 78, 178, 170, 249, 190,
          149, 58, 223, 92, 225, 234, 68, 15, 73, 41, 61, 170, 144, 152, 205, 222>>>>,
      <<34, 999,
        <<123, 15, 77, 82, 93, 91, 246, 139, 8, 242, 82, 152, 223, 118, 255, 10,
          236, 120, 236, 73, 247, 249, 63, 190, 88, 127, 2, 224, 214, 13, 206, 196>>>>,
      <<35, 999,
        <<212, 112, 157, 30, 200, 234, 168, 216, 245, 171, 181, 172, 80, 177, 104, 116,
          217, 156, 133, 116, 139, 157, 242, 23, 43, 23, 235, 217, 22, 85, 121, 240>>>>,
      <<232, 999,
        <<176, 6, 111, 214, 175, 99, 237, 143, 58, 212, 167, 44, 119, 35, 190, 82,
          33, 102, 184, 222, 127, 122, 53, 43, 116, 119, 109, 32, 31, 226, 108, 150>>>>,
      <<1, 1045,
        <<183, 147, 203, 52, 178, 57, 177, 44, 226, 61, 161, 212, 225, 195, 31, 5,
          2, 114, 244, 251, 145, 84, 227, 203, 70, 103, 220, 119, 5, 45, 5, 225>>>>,
      <<2, 1045,
        <<127, 229, 168, 188, 197, 50, 134, 30, 69, 54, 189, 46, 132, 194, 109, 199,
          216, 114, 100, 116, 199, 73, 82, 78, 149, 89, 38, 255, 96, 232, 120, 135>>>>,
      <<33, 1045,
        <<119, 201, 210, 128, 58, 65, 142, 42, 129, 194, 43, 37, 220, 11, 143, 35,
          141, 183, 89, 128, 69, 204, 7, 120, 79, 108, 184, 116, 145, 52, 111, 211>>>>,
      <<34, 1045,
        <<157, 125, 20, 135, 205, 84, 253, 55, 5, 221, 7, 189, 110, 66, 151, 255,
          112, 176, 25, 61, 199, 164, 228, 159, 12, 237, 37, 187, 147, 251, 169, 133>>>>,
      <<35, 1045,
        <<98, 210, 97, 200, 149, 188, 254, 213, 235, 212, 4, 165, 143, 98, 170, 37,
          214, 52, 128, 47, 65, 114, 166, 12, 186, 155, 145, 211, 144, 50, 194, 204>>>>,
      <<36, 1045,
        <<119, 53, 82, 242, 23, 134, 12, 73, 107, 215, 77, 56, 247, 136, 173, 133,
          114, 242, 113, 217, 145, 108, 207, 100, 246, 35, 220, 228, 152, 28, 2, 124>>>>,
      <<238, 1045,
        <<100, 180, 17, 119, 215, 199, 95, 233, 34, 211, 62, 57, 213, 32, 170, 136,
          229, 139, 97, 238, 97, 168, 31, 129, 192, 197, 126, 187, 201, 148, 195, 199>>>>,
      <<1, 1048,
        <<161, 171, 78, 248, 74, 48, 110, 112, 77, 144, 25, 131, 204, 134, 183, 246,
          55, 171, 233, 252, 139, 225, 89, 190, 38, 238, 118, 86, 128, 89, 54, 29>>>>,
      <<2, 1048,
        <<85, 90, 74, 206, 46, 109, 27, 49, 89, 39, 253, 147, 220, 52, 90, 92,
          203, 226, 217, 233, 36, 57, 47, 50, 20, 95, 203, 136, 51, 93, 77, 243>>>>,
      <<33, 1048,
        <<252, 28, 234, 94, 58, 195, 213, 192, 79, 214, 153, 142, 152, 134, 38, 77,
          247, 169, 184, 170, 159, 8, 50, 47, 121, 12, 46, 172, 183, 23, 82, 178>>>>,
      <<34, 1048,
        <<109, 219, 247, 94, 205, 175, 214, 180, 36, 82, 205, 120, 191, 195, 196, 45,
          152, 244, 57, 85, 29, 127, 7, 249, 33, 146, 123, 45, 53, 143, 168, 210>>>>,
      <<35, 1048,
        <<222, 249, 87, 49, 65, 151, 140, 89, 210, 1, 200, 209, 34, 21, 105, 100,
          14, 104, 151, 191, 133, 236, 167, 24, 39, 198, 249, 122, 75, 174, 157, 154>>>>,
      <<36, 1048,
        <<99, 46, 60, 253, 19, 247, 50, 66, 126, 75, 124, 203, 185, 199, 11, 30,
          63, 73, 1, 156, 80, 181, 112, 163, 61, 237, 3, 108, 12, 82, 7, 52>>>>,
      <<238, 1048,
        <<64, 46, 198, 111, 35, 36, 175, 21, 185, 53, 128, 168, 139, 151, 217, 182,
          22, 186, 39, 242, 122, 164, 31, 17, 193, 189, 100, 218, 214, 10, 1, 249>>>>,
      <<36, 1119,
        <<48, 206, 121, 91, 25, 109, 0, 222, 251, 32, 249, 86, 250, 116, 85, 253,
          180, 55, 120, 197, 18, 221, 208, 74, 5, 13, 72, 217, 254, 215, 182, 113>>>>,
      <<1119, 35,
        <<49, 94, 32, 186, 165, 133, 128, 152, 112, 174, 117, 53, 194, 157, 253, 97,
          81, 207, 34, 155, 43, 111, 40, 26, 38, 163, 172, 234, 254, 70, 69, 251>>>>,
      <<1, 1126,
        <<39, 172, 3, 18, 111, 80, 81, 10, 130, 60, 146, 49, 245, 196, 227, 148,
          0, 70, 198, 110, 81, 241, 135, 51, 176, 210, 218, 106, 213, 43, 204, 233>>>>,
      <<2, 1126,
        <<179, 81, 92, 206, 250, 219, 244, 77, 182, 210, 180, 192, 229, 78, 151, 167,
          240, 35, 29, 178, 238, 164, 6, 204, 76, 116, 157, 93, 94, 203, 203, 200>>>>,
      <<33, 1126,
        <<118, 27, 183, 66, 249, 222, 106, 157, 117, 179, 46, 124, 129, 77, 135, 197,
          137, 233, 103, 91, 131, 115, 117, 116, 151, 170, 16, 57, 135, 172, 103, 231>>>>,
      <<34, 1126,
        <<73, 131, 184, 56, 105, 149, 206, 236, 15, 171, 111, 190, 193, 250, 253, 86,
          113, 50, 113, 81, 224, 157, 223, 35, 190, 67, 246, 248, 0, 252, 102, 104>>>>,
      <<35, 1126,
        <<86, 109, 54, 219, 203, 7, 107, 197, 107, 37, 111, 252, 70, 189, 193, 169,
          73, 230, 103, 48, 174, 182, 197, 69, 144, 65, 82, 117, 19, 83, 90, 239>>>>,
      <<36, 1126,
        <<138, 20, 17, 60, 149, 1, 5, 218, 178, 52, 76, 230, 192, 19, 6, 101,
          244, 120, 145, 89, 7, 168, 113, 11, 0, 255, 93, 145, 213, 6, 184, 69>>>>,
      <<250, 1126,
        <<28, 216, 224, 149, 17, 208, 31, 86, 117, 93, 119, 151, 19, 255, 60, 244,
          150, 246, 128, 80, 195, 153, 38, 86, 166, 196, 102, 101, 255, 222, 106, 102>>>>,
      <<1127, 1,
        <<172, 246, 213, 184, 55, 126, 17, 236, 0, 94, 144, 111, 123, 161, 119, 196,
          118, 34, 168, 10, 200, 246, 17, 146, 240, 192, 121, 200, 253, 153, 171, 151>>>>,
      <<1127, 2,
        <<48, 200, 39, 224, 180, 52, 107, 72, 115, 17, 52, 148, 213, 65, 123, 73,
          0, 54, 121, 156, 13, 215, 160, 19, 78, 89, 43, 219, 228, 232, 87, 59>>>>,
      <<1127, 33,
        <<191, 21, 11, 202, 66, 33, 186, 169, 218, 27, 187, 165, 82, 159, 241, 114,
          93, 26, 116, 2, 136, 113, 65, 24, 79, 216, 43, 107, 194, 206, 243, 137>>>>,
      <<1127, 34,
        <<247, 244, 10, 12, 83, 99, 199, 209, 47, 218, 227, 119, 154, 207, 172, 145,
          49, 32, 20, 59, 203, 255, 143, 207, 238, 199, 246, 154, 210, 35, 195, 78>>>>,
      <<1127, 35,
        <<175, 49, 218, 79, 79, 140, 58, 202, 16, 26, 39, 151, 209, 74, 120, 235,
          89, 193, 1, 181, 232, 238, 50, 86, 188, 31, 227, 41, 13, 154, 248, 228>>>>,
      <<1127, 36,
        <<175, 174, 187, 166, 82, 127, 192, 1, 95, 23, 139, 54, 34, 23, 251, 34,
          163, 234, 31, 153, 62, 170, 89, 108, 58, 154, 56, 32, 156, 255, 225, 164>>>>,
      <<1127, 250,
        <<238, 225, 130, 121, 57, 162, 114, 64, 218, 54, 233, 121, 4, 80, 98, 244,
          243, 249, 240, 234, 27, 24, 46, 57, 131, 61, 111, 68, 32, 242, 148, 75>>>>,
      <<1, 1134,
        <<161, 111, 108, 144, 16, 162, 35, 137, 11, 61, 164, 164, 50, 223, 149, 142,
          228, 234, 134, 177, 91, 251, 165, 198, 166, 143, 212, 100, 2, 201, 152, 154>>>>,
      <<2, 1134,
        <<73, 98, 114, 59, 208, 61, 196, 31, 246, 246, 47, 64, 199, 219, 211, 162,
          76, 133, 208, 25, 200, 242, 77, 79, 81, 31, 117, 127, 92, 21, 113, 251>>>>,
      <<33, 1134,
        <<123, 228, 24, 136, 225, 150, 114, 25, 98, 158, 137, 188, 25, 199, 132, 88,
          212, 217, 82, 91, 25, 141, 214, 16, 173, 115, 186, 8, 48, 213, 116, 62>>>>,
      <<34, 1134,
        <<179, 103, 251, 75, 209, 235, 145, 39, 228, 0, 248, 243, 214, 77, 36, 49,
          171, 135, 11, 18, 140, 85, 206, 106, 60, 150, 215, 78, 243, 196, 206, 126>>>>,
      <<36, 1134,
        <<159, 49, 137, 253, 227, 110, 217, 155, 225, 15, 214, 173, 47, 140, 191, 255,
          44, 145, 31, 251, 211, 18, 33, 198, 63, 223, 85, 186, 147, 248, 56, 103>>>>,
      <<251, 1134,
        <<254, 114, 214, 76, 137, 157, 122, 214, 245, 79, 142, 58, 128, 204, 130, 123,
          164, 45, 181, 255, 64, 179, 12, 177, 114, 170, 107, 58, 12, 18, 30, 27>>>>,
      <<1, 1135,
        <<102, 80, 175, 137, 222, 250, 59, 114, 183, 160, 125, 136, 114, 37, 11, 224,
          221, 25, 154, 68, 19, 71, 73, 31, 133, 39, 124, 88, 93, 88, 186, 218>>>>,
      <<2, 1135,
        <<72, 155, 21, 35, 67, 107, 187, 177, 137, 247, 188, 94, 238, 85, 229, 60,
          210, 249, 112, 185, 8, 122, 61, 204, 156, 100, 73, 246, 26, 170, 100, 251>>>>,
      <<33, 1135,
        <<167, 85, 36, 234, 27, 7, 108, 116, 211, 111, 247, 246, 10, 128, 6, 151,
          21, 90, 164, 10, 32, 113, 188, 217, 73, 185, 255, 123, 3, 22, 147, 164>>>>,
      <<34, 1135,
        <<162, 82, 9, 173, 67, 147, 247, 162, 24, 68, 130, 2, 201, 106, 190, 81,
          180, 57, 16, 89, 97, 232, 162, 255, 166, 0, 122, 32, 151, 64, 8, 81>>>>,
      <<36, 1135,
        <<138, 137, 149, 53, 46, 1, 78, 219, 218, 141, 123, 38, 96, 22, 191, 242,
          106, 49, 16, 145, 165, 212, 125, 2, 46, 130, 206, 222, 241, 62, 192, 185>>>>,
      <<251, 1135,
        <<63, 231, 56, 198, 78, 69, 188, 131, 121, 182, 242, 244, 162, 58, 85, 17,
          55, 135, 240, 146, 247, 48, 251, 35, 252, 121, 155, 41, 201, 19, 217, 241>>>>,
      <<35, 1145,
        <<205, 100, 205, 145, 192, 5, 241, 137, 140, 28, 124, 136, 50, 12, 250, 110,
          145, 218, 142, 97, 9, 189, 54, 110, 71, 125, 66, 204, 61, 187, 225, 176>>>>,
      <<36, 1145,
        <<99, 28, 16, 65, 149, 97, 40, 182, 9, 67, 192, 96, 203, 169, 209, 115,
          33, 161, 101, 88, 42, 112, 174, 26, 13, 218, 194, 80, 228, 124, 226, 207>>>>,
      <<252, 1145,
        <<128, 178, 40, 69, 36, 126, 161, 103, 135, 175, 86, 67, 80, 111, 219, 90,
          116, 104, 239, 179, 222, 163, 13, 81, 169, 18, 4, 132, 203, 5, 142, 89>>>>,
      <<260, 1145,
        <<125, 161, 67, 24, 6, 172, 150, 110, 79, 82, 125, 252, 228, 23, 77, 123,
          51, 162, 222, 95, 48, 227, 215, 89, 44, 228, 107, 159, 233, 88, 21, 151>>>>,
      <<268, 1145,
        <<25, 75, 53, 237, 110, 17, 186, 204, 164, 138, 213, 139, 131, 82, 172, 206,
          42, 154, 139, 78, 172, 237, 181, 252, 181, 114, 53, 128, 59, 19, 56, 42>>>>,
      <<1145, 35,
        <<125, 151, 69, 20, 36, 103, 21, 52, 38, 66, 51, 132, 146, 70, 119, 59,
          22, 160, 15, 2, 85, 236, 224, 200, 134, 82, 40, 153, 21, 28, 130, 177>>>>,
      <<1145, 36,
        <<91, 127, 2, 101, 213, 97, 247, 170, 41, 8, 255, 200, 244, 83, 76, 131,
          167, 53, 143, 138, 74, 251, 80, 242, 222, 46, 159, 176, 128, 193, 91, 216>>>>,
      <<1145, 38,
        <<212, 215, 221, 224, 19, 38, 74, 253, 255, 195, 217, 18, 213, 48, 74, 114,
          223, 228, 55, 173, 171, 59, 87, 46, 138, 172, 194, 76, 10, 23, 112, 79>>>>,
      <<1145, 40,
        <<255, 84, 112, 125, 107, 106, 44, 49, 107, 94, 170, 218, 153, 84, 3, 116,
          134, 19, 87, 201, 202, 72, 184, 33, 229, 23, 208, 4, 130, 18, 111, 228>>>>,
      <<1145, 252,
        <<140, 155, 237, 204, 80, 205, 25, 45, 108, 190, 134, 193, 51, 11, 221, 40,
          128, 42, 94, 1, 34, 36, 9, 187, 47, 86, 46, 150, 248, 179, 239, 182>>>>,
      <<1145, 253,
        <<58, 103, 189, 90, 23, 106, 214, 143, 92, 22, 92, 188, 204, 101, 248, 126,
          91, 58, 145, 231, 167, 34, 241, 77, 105, 135, 69, 36, 188, 104, 239, 11>>>>,
      <<1145, 261,
        <<4, 125, 108, 69, 174, 48, 250, 51, 36, 50, 13, 28, 193, 61, 101, 32,
          52, 233, 144, 26, 157, 0, 197, 225, 71, 105, 220, 154, 20, 206, 113, 174>>>>,
      <<1145, 268,
        <<2, 140, 206, 71, 243, 51, 205, 172, 195, 58, 37, 155, 104, 11, 178, 156,
          8, 48, 50, 167, 242, 198, 140, 92, 85, 59, 228, 29, 65, 121, 117, 148>>>>,
      <<252, 1146,
        <<23, 50, 35, 200, 99, 229, 223, 14, 106, 9, 107, 4, 81, 240, 1, 120,
          155, 40, 38, 4, 79, 39, 125, 17, 231, 239, 60, 221, 95, 115, 63, 173>>>>,
      <<1, 1149,
        <<46, 103, 34, 63, 165, 13, 254, 75, 66, 59, 150, 98, 117, 152, 148, 143,
          155, 118, 184, 32, 155, 144, 131, 247, 204, 158, 85, 187, 165, 68, 171, 54>>>>,
      <<1149, 37,
        <<83, 202, 226, 117, 47, 215, 146, 195, 159, 46, 36, 45, 95, 126, 141, 142,
          214, 164, 147, 4, 97, 172, 229, 19, 179, 252, 59, 185, 13, 196, 199, 30>>>>,
      <<1149, 252,
        <<71, 194, 195, 147, 248, 104, 204, 51, 139, 188, 47, 195, 231, 123, 59, 158,
          97, 26, 241, 141, 74, 159, 24, 240, 156, 149, 207, 76, 39, 53, 107, 236>>>>,
      <<1, 1150,
        <<80, 71, 138, 244, 83, 77, 32, 62, 176, 126, 51, 117, 67, 249, 240, 219,
          112, 119, 254, 53, 133, 188, 63, 246, 42, 151, 105, 138, 255, 84, 72, 0>>>>,
      <<36, 1150,
        <<109, 187, 229, 131, 2, 44, 252, 55, 157, 215, 55, 22, 162, 115, 6, 165,
          91, 68, 65, 113, 106, 10, 79, 250, 91, 190, 169, 68, 234, 26, 72, 184>>>>,
      <<1150, 2,
        <<201, 240, 222, 150, 45, 81, 236, 220, 125, 68, 167, 243, 118, 145, 0, 106,
          224, 208, 49, 222, 195, 69, 129, 250, 30, 57, 125, 112, 120, 28, 89, 108>>>>,
      <<1150, 37,
        <<22, 217, 136, 126, 212, 96, 174, 163, 94, 103, 248, 143, 0, 234, 12, 228,
          142, 101, 101, 196, 247, 204, 170, 149, 194, 95, 34, 112, 71, 95, 84, 45>>>>,
      <<1150, 252,
        <<243, 173, 1, 72, 173, 138, 68, 181, 192, 237, 13, 46, 208, 169, 251, 241,
          34, 156, 223, 146, 243, 30, 29, 154, 125, 73, 92, 157, 236, 247, 237, 71>>>>,
      <<252, 1151,
        <<82, 70, 169, 88, 61, 101, 146, 92, 52, 90, 93, 8, 54, 147, 214, 109,
          128, 48, 225, 93, 232, 212, 232, 13, 41, 159, 228, 193, 39, 84, 130, 40>>>>,
      <<252, 1160,
        <<8, 93, 103, 2, 226, 10, 58, 54, 105, 105, 115, 98, 193, 95, 113, 144,
          141, 158, 143, 132, 51, 79, 42, 21, 201, 160, 119, 88, 6, 42, 208, 184>>>>,
      <<252, 1161,
        <<175, 108, 14, 68, 127, 170, 227, 247, 93, 31, 81, 206, 230, 117, 194, 134,
          72, 94, 76, 36, 38, 141, 188, 255, 72, 240, 54, 65, 244, 48, 2, 247>>>>,
      <<1161, 252,
        <<49, 156, 238, 191, 230, 224, 146, 142, 201, 166, 143, 3, 137, 186, 39, 9,
          10, 238, 204, 29, 183, 48, 120, 182, 88, 141, 86, 147, 68, 64, 201, 66>>>>,
      <<252, 1162,
        <<73, 163, 135, 227, 6, 114, 56, 103, 209, 28, 72, 63, 242, 115, 187, 34,
          140, 192, 108, 96, 89, 88, 223, 130, 238, 184, 183, 184, 102, 79, 176, 47>>>>,
      <<1, 1165,
        <<53, 183, 103, 200, 29, 5, 90, 134, 161, 178, 226, 50, 54, 90, 53, 91,
          170, 137, 183, 235, 125, 137, 103, 34, 130, 56, 1, 60, 246, 81, 98, 122>>>>,
      <<252, 1165,
        <<144, 99, 233, 161, 236, 219, 101, 141, 107, 239, 184, 227, 225, 192, 150, 194,
          2, 181, 118, 216, 184, 63, 119, 79, 131, 112, 193, 201, 118, 52, 83, 26>>>>,
      <<1165, 1,
        <<52, 234, 144, 248, 95, 188, 46, 59, 222, 76, 219, 239, 223, 47, 80, 161,
          187, 191, 37, 95, 20, 117, 207, 97, 28, 83, 78, 132, 65, 85, 162, 146>>>>,
      <<1165, 35,
        <<55, 192, 47, 221, 240, 222, 112, 5, 107, 206, 160, 180, 151, 0, 144, 167,
          213, 178, 56, 239, 223, 73, 108, 156, 8, 136, 216, 12, 0, 162, 163, 37>>>>,
      <<1165, 37,
        <<42, 165, 167, 201, 62, 221, 79, 5, 232, 107, 3, 24, 130, 52, 251, 21,
          201, 149, 122, 239, 6, 39, 123, 205, 40, 172, 39, 156, 168, 253, 67, 198>>>>,
      <<1, 1166,
        <<156, 123, 129, 92, 138, 222, 229, 187, 94, 232, 181, 209, 11, 147, 203, 37,
          136, 4, 68, 61, 13, 21, 3, 214, 22, 248, 116, 5, 194, 252, 192, 89>>>>,
      <<252, 1166,
        <<132, 243, 3, 205, 202, 151, 180, 121, 20, 120, 16, 116, 170, 166, 207, 217,
          67, 34, 53, 124, 149, 83, 17, 40, 148, 189, 161, 154, 164, 79, 30, 31>>>>,
      <<1166, 2,
        <<150, 156, 250, 91, 152, 106, 205, 30, 89, 74, 251, 100, 36, 45, 240, 98,
          91, 16, 185, 17, 116, 80, 50, 43, 193, 74, 13, 251, 73, 27, 91, 63>>>>,
      <<1166, 36,
        <<205, 41, 250, 45, 144, 57, 121, 150, 31, 20, 31, 215, 167, 254, 21, 24,
          196, 101, 124, 122, 26, 104, 93, 144, 232, 193, 181, 21, 76, 140, 119, 158>>>>,
      <<1166, 37,
        <<216, 43, 156, 31, 11, 201, 248, 94, 164, 243, 106, 142, 181, 100, 139, 4,
          247, 32, 132, 71, 11, 64, 255, 186, 45, 92, 106, 245, 116, 187, 218, 28>>>>,
      <<2, 1167,
        <<110, 150, 220, 208, 116, 228, 188, 72, 104, 178, 94, 72, 208, 33, 145, 130,
          30, 19, 60, 206, 175, 56, 159, 114, 2, 156, 92, 240, 96, 192, 216, 54>>>>,
      <<35, 1167,
        <<253, 0, 167, 66, 121, 191, 81, 91, 222, 217, 199, 107, 95, 49, 224, 32,
          29, 158, 121, 2, 42, 58, 147, 246, 177, 138, 119, 143, 177, 251, 225, 54>>>>,
      <<36, 1167,
        <<231, 125, 58, 250, 73, 141, 167, 52, 9, 182, 36, 223, 29, 210, 126, 27,
          160, 209, 234, 245, 135, 99, 128, 114, 125, 49, 224, 163, 2, 225, 73, 249>>>>,
      <<252, 1167,
        <<110, 92, 46, 167, 55, 138, 72, 60, 82, 228, 71, 40, 6, 17, 195, 55,
          127, 59, 92, 237, 228, 99, 185, 224, 30, 232, 121, 207, 22, 43, 76, 184>>>>,
      <<260, 1167,
        <<89, 201, 208, 240, 152, 250, 131, 254, 179, 57, 33, 128, 64, 230, 151, 0,
          92, 223, 174, 168, 96, 153, 29, 195, 63, 90, 93, 78, 234, 55, 44, 35>>>>,
      <<268, 1167,
        <<233, 65, 135, 22, 200, 22, 90, 3, 55, 133, 131, 152, 227, 136, 33, 139,
          175, 48, 43, 185, 50, 206, 84, 215, 29, 43, 131, 155, 13, 38, 149, 81>>>>,
      <<1167, 1,
        <<58, 76, 26, 231, 153, 17, 123, 3, 163, 30, 165, 111, 168, 141, 182, 46,
          48, 38, 2, 36, 151, 178, 17, 97, 149, 175, 152, 84, 17, 58, 21, 209>>>>,
      <<1167, 35,
        <<170, 189, 204, 204, 15, 6, 97, 183, 172, 205, 55, 227, 3, 242, 181, 172,
          132, 65, 27, 241, 102, 3, 133, 74, 67, 34, 49, 146, 138, 131, 137, 1>>>>,
      <<1167, 36,
        <<240, 207, 5, 234, 133, 90, 56, 47, 12, 36, 246, 156, 220, 7, 104, 164,
          69, 208, 116, 126, 151, 129, 181, 22, 192, 39, 186, 128, 45, 66, 60, 110>>>>,
      <<1167, 37,
        <<49, 37, 109, 153, 160, 77, 177, 212, 170, 143, 219, 167, 234, 77, 42, 123,
          204, 224, 92, 230, 97, 60, 198, 223, 40, 205, 36, 157, 118, 193, 105, 22>>>>,
      <<1167, 38,
        <<22, 245, 155, 1, 159, 253, 50, 211, 238, 165, 246, 246, 175, 212, 90, 153,
          189, 181, 8, 164, 88, 130, 215, 19, 23, 93, 5, 113, 240, 7, 122, 226>>>>,
      <<1167, 40,
        <<24, 90, 173, 19, 22, 22, 96, 83, 248, 35, 246, 114, 255, 157, 88, 56,
          168, 230, 34, 215, 228, 70, 132, 172, 251, 50, 218, 41, 135, 127, 230, 136>>>>,
      <<1167, 253,
        <<238, 40, 130, 5, 162, 173, 58, 191, 6, 225, 191, 132, 125, 105, 228, 10,
          124, 100, 169, 94, 237, 246, 241, 181, 55, 128, 9, 237, 164, 202, 225, 39>>>>,
      <<1167, 261,
        <<97, 223, 236, 197, 42, 74, 114, 105, 90, 148, 61, 78, 244, 4, 28, 183,
          83, 26, 159, 59, 76, 189, 102, 55, 66, 221, 112, 108, 193, 249, 72, 115>>>>,
      <<1167, 268,
        <<172, 93, 15, 190, 13, 162, 221, 22, 78, 150, 172, 202, 70, 56, 233, 232,
          186, 188, 165, 138, 246, 161, 250, 27, 41, 2, 215, 96, 86, 119, 138, 188>>>>,
      <<1, 1168,
        <<155, 183, 217, 254, 161, 103, 6, 4, 56, 223, 147, 239, 65, 52, 175, 2,
          169, 184, 208, 127, 192, 34, 31, 36, 60, 252, 4, 105, 136, 36, 21, 128>>>>,
      <<2, 1168,
        <<64, 252, 121, 129, 187, 161, 68, 13, 247, 74, 122, 84, 97, 238, 75, 73,
          20, 15, 117, 162, 80, 218, 75, 27, 44, 137, 22, 130, 247, 89, 215, 244>>>>,
      <<252, 1168,
        <<16, 79, 100, 59, 195, 7, 127, 193, 53, 160, 216, 219, 29, 65, 81, 166,
          42, 93, 180, 70, 46, 201, 221, 99, 94, 136, 43, 167, 159, 68, 197, 111>>>>,
      <<1168, 2,
        <<182, 230, 149, 220, 167, 102, 16, 219, 138, 46, 58, 28, 218, 18, 70, 64,
          150, 151, 130, 27, 25, 241, 74, 123, 63, 160, 83, 210, 36, 78, 207, 238>>>>,
      <<1168, 37,
        <<27, 203, 213, 249, 206, 93, 12, 104, 233, 128, 167, 234, 173, 99, 144, 2,
          210, 196, 61, 136, 216, 203, 142, 164, 238, 220, 146, 249, 178, 58, 145, 18>>>>,
      <<1168, 38,
        <<245, 163, 176, 14, 36, 42, 216, 96, 37, 28, 151, 146, 31, 184, 216, 208,
          181, 128, 215, 75, 122, 219, 25, 32, 228, 206, 78, 86, 59, 50, 208, 214>>>>,
      <<1, 1170,
        <<143, 142, 169, 149, 138, 170, 162, 66, 137, 239, 100, 62, 135, 118, 105, 173,
          20, 131, 60, 142, 119, 214, 126, 200, 181, 86, 166, 124, 7, 195, 246, 85>>>>,
      <<2, 1170,
        <<155, 187, 216, 137, 94, 203, 136, 132, 132, 128, 72, 230, 8, 216, 215, 141,
          241, 71, 90, 21, 48, 180, 149, 99, 245, 246, 231, 129, 175, 65, 139, 196>>>>,
      <<252, 1170,
        <<121, 103, 169, 250, 3, 148, 147, 235, 52, 255, 32, 70, 201, 88, 227, 121,
          250, 133, 6, 44, 96, 176, 80, 240, 169, 172, 246, 35, 89, 140, 108, 55>>>>,
      <<1170, 3,
        <<162, 0, 108, 192, 48, 180, 143, 129, 204, 70, 133, 182, 253, 199, 123, 239,
          68, 89, 54, 194, 186, 105, 24, 184, 136, 1, 152, 94, 112, 83, 8, 232>>>>,
      <<1170, 37,
        <<2, 44, 8, 40, 53, 119, 14, 200, 65, 85, 236, 148, 84, 5, 5, 81,
          164, 190, 71, 149, 21, 10, 55, 204, 44, 184, 130, 220, 176, 64, 75, 182>>>>,
      <<1170, 40,
        <<94, 29, 49, 6, 112, 220, 20, 155, 204, 195, 246, 89, 28, 188, 237, 106,
          140, 112, 246, 103, 202, 173, 29, 237, 187, 46, 1, 250, 123, 123, 77, 172>>>>,
      <<1, 1185,
        <<75, 196, 202, 6, 179, 2, 192, 83, 61, 57, 149, 170, 116, 35, 242, 108,
          84, 11, 195, 245, 78, 153, 153, 118, 228, 23, 194, 164, 166, 26, 254, 140>>>>,
      <<1185, 37,
        <<138, 133, 142, 100, 223, 141, 222, 206, 184, 173, 187, 143, 172, 142, 5, 226,
          223, 230, 116, 45, 244, 79, 189, 8, 234, 231, 239, 99, 239, 181, 190, 143>>>>,
      <<1185, 252,
        <<230, 83, 174, 138, 53, 8, 105, 56, 177, 7, 31, 133, 180, 243, 218, 66,
          68, 249, 242, 159, 130, 161, 212, 44, 16, 185, 170, 228, 39, 41, 47, 8>>>>,
      <<1186, 253,
        <<88, 119, 58, 174, 36, 78, 0, 62, 141, 150, 180, 128, 63, 223, 40, 70,
          3, 175, 237, 19, 16, 125, 18, 251, 53, 74, 22, 234, 233, 47, 17, 112>>>>,
      <<35, 1187,
        <<147, 240, 14, 240, 28, 220, 174, 21, 157, 44, 154, 148, 249, 179, 99, 5,
          163, 72, 64, 45, 237, 32, 80, 36, 248, 125, 156, 81, 99, 144, 145, 85>>>>,
      <<36, 1187,
        <<232, 95, 86, 49, 208, 122, 128, 46, 72, 11, 205, 180, 217, 225, 93, 106,
          154, 166, 57, 90, 26, 29, 77, 104, 140, 159, 190, 10, 229, 38, 1, 149>>>>,
      <<252, 1187,
        <<212, 202, 45, 152, 1, 2, 64, 122, 5, 43, 214, 134, 34, 27, 117, 103,
          157, 2, 169, 20, 199, 228, 0, 86, 213, 231, 122, 140, 128, 164, 229, 45>>>>,
      <<260, 1187,
        <<204, 133, 57, 212, 147, 30, 50, 151, 78, 93, 193, 207, 67, 226, 67, 15,
          210, 74, 109, 130, 174, 92, 104, 127, 65, 66, 254, 162, 240, 223, 91, 104>>>>,
      <<1, 1191,
        <<189, 2, 82, 168, 220, 240, 162, 132, 235, 107, 169, 178, 0, 229, 14, 242,
          58, 153, 6, 18, 198, 7, 130, 197, 76, 26, 49, 227, 166, 174, 50, 17>>>>,
      <<2, 1191,
        <<189, 40, 58, 12, 132, 153, 216, 202, 228, 153, 177, 64, 246, 137, 205, 118,
          14, 162, 242, 6, 24, 169, 45, 90, 179, 235, 63, 153, 188, 55, 54, 168>>>>,
      <<35, 1191,
        <<174, 99, 216, 235, 236, 177, 179, 154, 170, 29, 68, 238, 8, 150, 55, 199,
          198, 255, 223, 158, 92, 3, 23, 63, 27, 196, 144, 139, 89, 69, 151, 26>>>>,
      <<1191, 1,
        <<189, 99, 62, 246, 71, 151, 252, 149, 163, 50, 95, 98, 45, 242, 185, 245,
          247, 21, 233, 66, 255, 142, 6, 52, 73, 115, 162, 38, 19, 29, 118, 20>>>>,
      <<1191, 37,
        <<71, 38, 217, 90, 112, 98, 18, 116, 18, 234, 215, 116, 23, 208, 98, 124,
          91, 17, 217, 84, 152, 119, 13, 207, 215, 5, 34, 251, 133, 230, 21, 98>>>>,
      <<1191, 253,
        <<225, 25, 178, 6, 93, 171, 131, 26, 68, 219, 4, 211, 25, 120, 34, 143,
          20, 14, 140, 52, 186, 124, 48, 28, 152, 13, 61, 205, 101, 101, 59, 83>>>>,
      <<1, 1192,
        <<104, 52, 250, 104, 193, 138, 40, 72, 21, 157, 239, 151, 238, 82, 105, 165,
          99, 107, 238, 98, 228, 193, 248, 238, 217, 250, 220, 116, 117, 43, 187, 28>>>>,
      <<2, 1192,
        <<223, 37, 200, 191, 57, 45, 205, 241, 39, 221, 50, 117, 106, 157, 237, 179,
          36, 191, 169, 129, 10, 57, 238, 105, 129, 38, 154, 159, 120, 82, 145, 36>>>>,
      <<36, 1192,
        <<210, 124, 108, 16, 251, 64, 92, 77, 36, 41, 147, 123, 225, 54, 25, 153,
          59, 2, 70, 61, 192, 70, 4, 94, 15, 143, 82, 105, 65, 68, 21, 201>>>>,
      <<1192, 2,
        <<251, 149, 53, 236, 151, 226, 70, 168, 180, 122, 59, 183, 241, 11, 157, 30,
          99, 190, 211, 143, 9, 4, 121, 255, 13, 52, 10, 184, 142, 115, 229, 193>>>>,
      <<1192, 37,
        <<75, 0, 31, 185, 104, 146, 37, 176, 89, 93, 95, 233, 130, 153, 26, 36,
          167, 215, 171, 33, 217, 156, 179, 131, 206, 210, 220, 106, 203, 4, 8, 148>>>>,
      <<1192, 253,
        <<97, 208, 127, 26, 166, 226, 15, 206, 176, 237, 123, 226, 236, 221, 196, 81,
          30, 56, 119, 71, 252, 24, 15, 160, 180, 224, 120, 234, 111, 197, 33, 48>>>>,
      <<1193, 253,
        <<104, 32, 130, 178, 168, 161, 224, 13, 155, 98, 97, 142, 33, 2, 226, 212,
          92, 112, 156, 60, 131, 243, 14, 29, 73, 163, 67, 175, 130, 233, 9, 65>>>>,
      <<1, 1205,
        <<184, 186, 211, 26, 234, 97, 27, 27, 87, 212, 239, 208, 57, 249, 104, 92,
          153, 243, 24, 97, 97, 63, 210, 168, 125, 171, 87, 74, 87, 216, 28, 243>>>>,
      <<2, 1205,
        <<233, 136, 245, 25, 89, 212, 129, 22, 79, 133, 168, 238, 138, 142, 92, 247,
          97, 33, 88, 70, 7, 156, 62, 71, 151, 81, 132, 186, 122, 84, 68, 41>>>>,
      <<252, 1205,
        <<28, 232, 24, 38, 35, 6, 113, 17, 243, 116, 135, 217, 11, 162, 248, 228,
          129, 10, 19, 1, 17, 39, 197, 203, 114, 187, 83, 108, 171, 46, 67, 182>>>>,
      <<1205, 37,
        <<209, 62, 97, 66, 213, 134, 53, 36, 243, 244, 12, 234, 218, 254, 231, 83,
          186, 170, 24, 32, 249, 76, 251, 59, 213, 182, 63, 212, 109, 215, 232, 169>>>>,
      <<1205, 253,
        <<245, 72, 208, 77, 147, 254, 230, 220, 27, 98, 124, 236, 90, 196, 100, 20,
          178, 173, 70, 24, 117, 157, 79, 46, 222, 35, 97, 114, 50, 21, 113, 105>>>>,
      <<1206, 253,
        <<10, 11, 252, 158, 199, 241, 98, 92, 123, 12, 54, 222, 194, 130, 28, 163,
          167, 221, 238, 153, 8, 4, 149, 81, 143, 137, 152, 211, 130, 55, 218, 138>>>>,
      <<1207, 253,
        <<93, 101, 145, 122, 87, 208, 77, 224, 156, 226, 49, 185, 28, 70, 136, 196,
          115, 146, 47, 10, 176, 238, 142, 157, 251, 165, 228, 36, 57, 240, 198, 56>>>>,
      <<35, 1210,
        <<151, 128, 21, 254, 150, 83, 122, 198, 149, 109, 35, 54, 121, 161, 44, 103,
          163, 155, 55, 178, 43, 34, 56, 102, 43, 130, 106, 180, 226, 80, 94, 128>>>>,
      <<36, 1210,
        <<174, 7, 127, 104, 223, 34, 172, 101, 34, 167, 238, 67, 16, 83, 41, 170,
          133, 211, 31, 235, 56, 156, 76, 80, 182, 16, 171, 105, 87, 51, 49, 200>>>>,
      <<252, 1210,
        <<52, 180, 214, 43, 198, 122, 35, 6, 238, 41, 22, 11, 223, 95, 159, 131,
          95, 4, 88, 73, 135, 115, 249, 78, 185, 147, 115, 177, 157, 247, 114, 72>>>>,
      <<260, 1210,
        <<44, 201, 102, 72, 70, 201, 242, 17, 90, 190, 113, 121, 132, 40, 194, 207,
          134, 177, 119, 40, 196, 79, 33, 96, 201, 63, 120, 84, 239, 40, 102, 25>>>>,
      <<1210, 253,
        <<250, 106, 51, 250, 120, 0, 30, 213, 14, 91, 28, 189, 190, 222, 89, 11,
          251, 73, 124, 30, 157, 146, 49, 117, 179, 253, 127, 105, 101, 120, 221, 60>>>>,
      <<1215, 254,
        <<174, 207, 215, 26, 100, 44, 199, 147, 11, 27, 153, 142, 39, 192, 163, 128,
          146, 117, 231, 70, 205, 69, 120, 75, 24, 40, 223, 222, 145, 42, 28, 172>>>>,
      <<36, 1217,
        <<35, 16, 211, 18, 168, 58, 204, 41, 174, 11, 36, 7, 178, 210, 202, 101,
          205, 124, 191, 9, 218, 78, 149, 18, 84, 14, 229, 142, 42, 211, 105, 166>>>>,
      <<1, 1221,
        <<197, 35, 145, 116, 169, 33, 217, 126, 158, 221, 105, 238, 109, 57, 171, 62,
          250, 169, 87, 183, 193, 238, 40, 26, 162, 250, 69, 104, 175, 56, 225, 43>>>>,
      <<3, 1221,
        <<100, 197, 199, 247, 73, 43, 10, 113, 222, 253, 17, 101, 180, 125, 150, 113,
          53, 132, 59, 110, 73, 230, 221, 34, 240, 106, 252, 193, 189, 188, 243, 51>>>>,
      <<36, 1221,
        <<187, 77, 74, 136, 245, 250, 164, 86, 32, 157, 162, 69, 23, 126, 254, 146,
          32, 193, 250, 134, 152, 95, 110, 109, 67, 219, 107, 231, 200, 11, 140, 23>>>>,
      <<1221, 2,
        <<136, 10, 175, 35, 55, 225, 227, 70, 109, 21, 241, 143, 231, 68, 44, 21,
          6, 140, 232, 166, 208, 162, 215, 156, 5, 1, 4, 108, 125, 152, 118, 190>>>>,
      <<1221, 37,
        <<140, 67, 248, 173, 30, 113, 53, 185, 167, 225, 169, 83, 75, 7, 153, 54,
          38, 250, 174, 192, 252, 83, 126, 133, 83, 238, 80, 195, 35, 47, 37, 224>>>>,
      <<1221, 254,
        <<199, 100, 28, 39, 227, 159, 52, 225, 11, 132, 121, 106, 107, 235, 146, 64,
          8, 50, 196, 39, 2, 1, 44, 208, 246, 215, 208, 165, 210, 0, 105, 249>>>>,
      <<1233, 254,
        <<134, 122, 117, 53, 88, 143, 173, 95, 125, 116, 53, 61, 214, 187, 96, 173,
          137, 113, 1, 45, 203, 120, 156, 166, 145, 245, 24, 147, 126, 49, 17, 85>>>>,
      <<36, 1235,
        <<185, 96, 135, 59, 159, 247, 130, 212, 81, 211, 164, 249, 102, 241, 221, 140,
          91, 236, 255, 186, 174, 93, 250, 173, 191, 29, 169, 8, 87, 166, 49, 191>>>>,
      <<1, 1250,
        <<44, 64, 11, 86, 152, 31, 7, 43, 25, 210, 131, 177, 103, 237, 254, 166,
          4, 85, 94, 241, 26, 49, 117, 232, 194, 37, 55, 161, 224, 230, 215, 71>>>>,
      <<2, 1250,
        <<214, 82, 68, 10, 45, 168, 41, 24, 42, 77, 213, 210, 54, 12, 66, 175,
          54, 182, 250, 76, 4, 125, 181, 60, 124, 176, 71, 30, 232, 126, 90, 98>>>>,
      <<33, 1250,
        <<233, 188, 124, 136, 186, 252, 108, 89, 93, 33, 212, 121, 149, 140, 121, 222,
          8, 112, 186, 249, 189, 71, 193, 42, 107, 4, 61, 229, 158, 119, 157, 216>>>>,
      <<34, 1250,
        <<12, 198, 35, 76, 49, 17, 30, 242, 124, 218, 201, 199, 164, 3, 208, 46,
          145, 92, 224, 251, 201, 184, 138, 55, 244, 195, 33, 151, 192, 101, 184, 152>>>>,
      <<35, 1250,
        <<80, 172, 176, 254, 247, 176, 61, 182, 184, 27, 33, 39, 248, 194, 223, 224,
          156, 62, 80, 91, 213, 102, 242, 84, 246, 39, 16, 138, 43, 182, 175, 71>>>>,
      <<37, 1250,
        <<249, 126, 161, 231, 11, 112, 18, 175, 252, 40, 200, 128, 99, 142, 151, 180,
          2, 65, 149, 212, 255, 162, 231, 177, 60, 152, 128, 106, 65, 60, 111, 154>>>>,
      <<258, 1250,
        <<85, 70, 8, 138, 214, 138, 106, 120, 151, 16, 157, 131, 103, 253, 68, 80,
          121, 23, 249, 111, 57, 230, 27, 219, 125, 239, 84, 18, 194, 85, 93, 89>>>>,
      <<1, 1252,
        <<88, 45, 60, 121, 217, 205, 135, 218, 88, 8, 177, 1, 84, 18, 97, 151,
          75, 250, 239, 129, 246, 225, 93, 71, 160, 56, 79, 244, 75, 47, 25, 255>>>>,
      <<2, 1252,
        <<2, 118, 162, 5, 174, 234, 28, 168, 208, 212, 118, 108, 76, 167, 83, 171,
          25, 205, 67, 24, 157, 160, 26, 124, 165, 32, 5, 193, 33, 49, 74, 19>>>>,
      <<33, 1252,
        <<28, 219, 214, 108, 96, 152, 77, 123, 163, 217, 222, 108, 243, 64, 15, 157,
          229, 239, 136, 71, 183, 72, 230, 181, 184, 231, 195, 199, 150, 249, 235, 180>>>>,
      <<34, 1252,
        <<82, 73, 238, 75, 105, 64, 114, 203, 25, 105, 74, 41, 48, 116, 212, 200,
          213, 118, 89, 187, 100, 178, 176, 138, 225, 178, 168, 156, 112, 249, 132, 251>>>>,
      <<35, 1252,
        <<67, 202, 63, 69, 221, 59, 215, 57, 64, 191, 49, 121, 232, 105, 128, 13,
          182, 183, 71, 220, 57, 101, 146, 211, 165, 112, 45, 168, 21, 53, 233, 128>>>>,
      <<37, 1252,
        <<219, 165, 83, 65, 115, 69, 37, 165, 99, 19, 164, 199, 108, 113, 1, 112,
          60, 112, 125, 41, 2, 243, 143, 122, 161, 208, 10, 154, 61, 70, 83, 57>>>>,
      <<258, 1252,
        <<205, 135, 159, 72, 122, 76, 112, 185, 212, 158, 148, 253, 42, 73, 0, 0,
          202, 79, 87, 15, 11, 91, 99, 108, 55, 186, 98, 158, 220, 82, 69, 65>>>>,
      <<1, 1264,
        <<66, 211, 203, 124, 148, 204, 178, 173, 39, 93, 2, 230, 28, 252, 236, 108,
          121, 163, 38, 20, 203, 29, 59, 224, 86, 232, 11, 189, 164, 172, 185, 199>>>>,
      <<2, 1264,
        <<216, 91, 236, 220, 238, 33, 126, 226, 5, 217, 134, 150, 251, 214, 127, 216,
          142, 154, 235, 231, 199, 59, 177, 101, 99, 175, 157, 20, 124, 135, 244, 75>>>>,
      <<33, 1264,
        <<241, 27, 18, 116, 215, 118, 244, 5, 201, 139, 132, 41, 167, 86, 159, 118,
          144, 79, 198, 84, 27, 71, 116, 182, 96, 62, 54, 246, 238, 153, 15, 0>>>>,
      <<34, 1264,
        <<190, 39, 133, 214, 43, 22, 209, 215, 121, 142, 37, 216, 19, 103, 128, 144,
          48, 190, 71, 28, 227, 252, 68, 46, 217, 90, 57, 42, 74, 52, 31, 124>>>>,
      <<36, 1264,
        <<248, 25, 66, 103, 219, 226, 154, 121, 190, 216, 162, 127, 206, 240, 206, 81,
          19, 218, 2, 36, 34, 62, 164, 241, 156, 124, 117, 92, 138, 212, 184, 181>>>>,
      <<37, 1264,
        <<91, 251, 221, 160, 205, 56, 206, 200, 181, 91, 42, 225, 59, 28, 135, 82,
          181, 188, 129, 247, 104, 114, 88, 68, 61, 118, 54, 203, 155, 28, 218, 238>>>>,
      <<259, 1264,
        <<85, 202, 126, 125, 150, 241, 254, 58, 89, 0, 94, 2, 58, 89, 200, 164,
          13, 145, 97, 159, 217, 210, 251, 145, 26, 84, 179, 55, 152, 80, 24, 131>>>>,
      <<1, 1266,
        <<89, 111, 209, 112, 165, 183, 203, 9, 248, 130, 96, 200, 191, 205, 64, 255,
          73, 41, 72, 145, 237, 197, 255, 158, 27, 103, 98, 49, 194, 241, 173, 81>>>>,
      <<2, 1266,
        <<104, 139, 47, 186, 232, 238, 107, 36, 65, 78, 27, 177, 0, 3, 27, 102,
          194, 246, 198, 107, 45, 105, 196, 178, 216, 208, 183, 114, 33, 55, 97, 246>>>>,
      <<33, 1266,
        <<174, 36, 52, 138, 225, 192, 17, 200, 218, 168, 82, 102, 220, 190, 24, 104,
          147, 227, 174, 234, 187, 14, 163, 0, 88, 211, 194, 222, 221, 219, 29, 107>>>>,
      <<34, 1266,
        <<187, 95, 225, 65, 254, 91, 226, 43, 100, 192, 64, 122, 147, 103, 2, 42,
          140, 213, 112, 21, 45, 214, 80, 136, 158, 206, 12, 83, 145, 91, 21, 195>>>>,
      <<36, 1266,
        <<194, 219, 178, 25, 72, 47, 222, 121, 3, 222, 247, 210, 184, 213, 150, 83,
          15, 120, 159, 118, 47, 122, 98, 231, 179, 128, 44, 39, 207, 156, 157, 176>>>>,
      <<37, 1266,
        <<93, 190, 53, 194, 184, 105, 71, 123, 42, 88, 172, 15, 7, 219, 248, 162,
          84, 100, 205, 224, 184, 230, 254, 203, 92, 167, 103, 121, 206, 96, 173, 196>>>>,
      <<259, 1266,
        <<248, 24, 225, 187, 16, 235, 209, 18, 230, 109, 252, 49, 127, 194, 0, 188,
          103, 209, 252, 101, 79, 208, 231, 228, 213, 165, 67, 5, 190, 251, 136, 225>>>>,
      <<260, 1279,
        <<143, 62, 42, 159, 188, 48, 1, 32, 152, 127, 237, 75, 226, 169, 29, 60,
          46, 164, 163, 165, 134, 239, 226, 163, 30, 36, 32, 156, 101, 143, 204, 222>>>>,
      <<1279, 260,
        <<135, 118, 45, 114, 166, 46, 15, 252, 247, 123, 220, 186, 211, 117, 217, 78,
          220, 251, 251, 198, 37, 150, 117, 114, 34, 215, 201, 80, 255, 27, 29, 81>>>>,
      <<260, 1280,
        <<235, 2, 36, 6, 188, 136, 42, 68, 117, 83, 91, 153, 153, 197, 238, 74,
          111, 71, 121, 11, 254, 41, 206, 70, 232, 9, 49, 235, 12, 25, 8, 196>>>>,
      <<37, 1284,
        <<157, 123, 44, 227, 20, 14, 237, 243, 99, 69, 168, 193, 140, 48, 54, 18,
          111, 18, 203, 196, 217, 195, 71, 113, 177, 74, 99, 53, 247, 15, 218, 59>>>>,
      <<1284, 1,
        <<93, 151, 224, 99, 9, 115, 69, 254, 82, 23, 226, 221, 237, 53, 240, 232,
          57, 135, 78, 80, 226, 119, 149, 5, 33, 49, 73, 135, 229, 155, 6, 85>>>>,
      <<1284, 260,
        <<159, 48, 50, 130, 16, 174, 240, 32, 131, 130, 200, 162, 32, 248, 157, 212,
          149, 73, 219, 129, 243, 190, 135, 206, 60, 78, 212, 102, 226, 24, 210, 39>>>>,
      <<1, 1285,
        <<38, 37, 109, 200, 128, 40, 39, 7, 152, 108, 246, 50, 7, 72, 90, 81,
          122, 133, 104, 189, 130, 30, 85, 110, 254, 181, 252, 73, 147, 226, 35, 120>>>>,
      <<36, 1285,
        <<231, 27, 89, 38, 218, 138, 63, 215, 220, 179, 114, 13, 112, 158, 97, 13,
          40, 83, 247, 198, 96, 106, 76, 148, 156, 74, 107, 26, 119, 28, 41, 0>>>>,
      <<37, 1285,
        <<24, 11, 16, 237, 226, 57, 187, 102, 146, 48, 249, 135, 205, 248, 55, 180,
          125, 221, 45, 186, 180, 240, 78, 248, 63, 21, 25, 28, 65, 162, 56, 2>>>>,
      <<1285, 1,
        <<202, 52, 251, 115, 227, 0, 175, 74, 68, 230, 247, 204, 250, 170, 189, 49,
          165, 50, 179, 251, 132, 113, 212, 240, 48, 16, 13, 44, 65, 192, 68, 92>>>>,
      <<1285, 2,
        <<160, 236, 220, 81, 182, 13, 152, 80, 249, 91, 254, 151, 11, 198, 49, 112,
          186, 59, 46, 106, 0, 46, 168, 165, 244, 203, 27, 95, 178, 189, 212, 192>>>>,
      <<1285, 260,
        <<149, 152, 44, 18, 126, 59, 70, 31, 131, 23, 122, 157, 85, 104, 1, 74,
          125, 137, 106, 177, 72, 11, 225, 87, 142, 207, 24, 219, 85, 134, 69, 144>>>>,
      <<35, 1286,
        <<54, 134, 48, 187, 118, 26, 69, 214, 166, 233, 204, 158, 31, 144, 157, 126,
          84, 199, 89, 119, 4, 161, 200, 235, 162, 228, 214, 221, 223, 88, 204, 176>>>>,
      <<36, 1286,
        <<162, 150, 81, 244, 29, 79, 164, 146, 49, 110, 192, 154, 213, 69, 196, 53,
          187, 35, 122, 38, 141, 165, 184, 150, 97, 32, 212, 162, 7, 107, 91, 42>>>>,
      <<252, 1286,
        <<131, 131, 103, 248, 141, 199, 201, 147, 28, 39, 11, 149, 240, 142, 191, 114,
          170, 180, 97, 48, 108, 233, 131, 12, 151, 239, 227, 126, 17, 158, 10, 145>>>>,
      <<260, 1286,
        <<233, 199, 248, 183, 168, 1, 173, 231, 167, 121, 235, 101, 130, 195, 160, 140,
          171, 192, 178, 249, 120, 238, 41, 63, 82, 109, 162, 218, 77, 226, 89, 43>>>>,
      <<268, 1286,
        <<98, 128, 129, 117, 1, 179, 18, 241, 35, 249, 31, 240, 185, 173, 222, 232,
          246, 198, 182, 142, 43, 106, 113, 217, 45, 145, 117, 193, 185, 163, 3, 246>>>>,
      <<1286, 35,
        <<10, 245, 180, 105, 148, 157, 252, 167, 250, 27, 45, 94, 154, 234, 197, 235,
          228, 94, 189, 186, 58, 121, 242, 44, 129, 170, 145, 159, 192, 245, 32, 176>>>>,
      <<1286, 36,
        <<224, 63, 30, 107, 9, 137, 71, 187, 254, 149, 251, 98, 68, 48, 102, 17,
          195, 133, 109, 147, 166, 211, 183, 39, 209, 130, 31, 4, 62, 114, 174, 150>>>>,
      <<1286, 38,
        <<72, 196, 221, 31, 215, 154, 90, 6, 123, 239, 240, 29, 185, 186, 190, 148,
          215, 225, 130, 74, 142, 42, 202, 139, 115, 155, 181, 54, 113, 224, 182, 60>>>>,
      <<1286, 40,
        <<8, 102, 27, 178, 33, 193, 4, 165, 73, 225, 42, 156, 227, 5, 56, 140,
          201, 244, 247, 4, 164, 15, 134, 71, 136, 189, 161, 3, 238, 170, 113, 5>>>>,
      <<1286, 253,
        <<12, 243, 68, 217, 221, 245, 103, 28, 221, 230, 76, 139, 178, 194, 45, 82,
          219, 36, 93, 84, 163, 106, 177, 87, 90, 86, 24, 235, 63, 210, 107, 153>>>>,
      <<1286, 261,
        <<231, 69, 98, 146, 200, 40, 35, 156, 148, 238, 231, 87, 225, 36, 90, 231,
          170, 176, 171, 157, 8, 124, 110, 5, 35, 118, 153, 126, 35, 132, 164, 45>>>>,
      <<1286, 268,
        <<108, 236, 141, 79, 141, 237, 224, 214, 49, 254, 61, 10, 124, 152, 47, 47,
          157, 37, 78, 137, 215, 196, 226, 193, 30, 48, 127, 246, 230, 133, 192, 165>>>>,
      <<37, 1295,
        <<47, 41, 216, 7, 91, 38, 66, 101, 184, 176, 34, 2, 239, 136, 11, 159,
          187, 217, 14, 69, 78, 136, 238, 35, 192, 132, 240, 82, 225, 203, 188, 98>>>>,
      <<1295, 1,
        <<160, 234, 36, 98, 50, 211, 46, 130, 32, 163, 129, 157, 76, 180, 181, 155,
          168, 216, 114, 164, 218, 213, 207, 110, 1, 88, 151, 139, 254, 109, 114, 101>>>>,
      <<1295, 260,
        <<215, 102, 244, 113, 214, 30, 49, 102, 20, 49, 86, 47, 159, 103, 34, 192,
          240, 202, 7, 20, 135, 134, 152, 236, 184, 29, 128, 24, 113, 89, 75, 138>>>>,
      <<35, 1299,
        <<57, 48, 183, 229, 217, 176, 131, 103, 41, 11, 190, 77, 251, 7, 13, 17,
          124, 229, 206, 194, 40, 237, 140, 146, 183, 65, 27, 159, 109, 23, 71, 6>>>>,
      <<36, 1299,
        <<102, 146, 59, 65, 99, 207, 34, 166, 215, 241, 141, 32, 29, 72, 147, 9,
          217, 209, 202, 184, 55, 212, 114, 125, 56, 74, 156, 231, 221, 130, 59, 123>>>>,
      <<252, 1299,
        <<236, 87, 14, 85, 116, 224, 219, 63, 222, 58, 173, 78, 222, 139, 253, 105,
          172, 160, 251, 222, 8, 29, 137, 44, 36, 152, 154, 194, 151, 143, 19, 160>>>>,
      <<260, 1299,
        <<28, 201, 150, 204, 136, 253, 20, 32, 162, 62, 146, 204, 55, 205, 198, 1,
          45, 149, 229, 135, 113, 184, 51, 61, 152, 238, 116, 139, 107, 60, 82, 207>>>>,
      <<268, 1299,
        <<10, 6, 71, 249, 93, 128, 196, 226, 59, 54, 242, 224, 107, 171, 38, 131,
          235, 211, 170, 5, 208, 66, 73, 107, 122, 230, 133, 182, 111, 239, 9, 116>>>>,
      <<1299, 35,
        <<202, 180, 125, 32, 234, 62, 16, 158, 83, 48, 51, 142, 9, 255, 35, 124,
          113, 205, 22, 149, 1, 222, 174, 42, 238, 34, 97, 198, 195, 163, 7, 54>>>>,
      <<1299, 36,
        <<151, 20, 38, 132, 63, 167, 182, 235, 138, 137, 220, 82, 92, 205, 53, 81,
          167, 12, 233, 217, 162, 133, 104, 176, 102, 222, 137, 208, 43, 245, 243, 156>>>>,
      <<1299, 38,
        <<93, 246, 83, 182, 187, 237, 227, 123, 196, 232, 136, 169, 98, 158, 176, 2,
          105, 196, 233, 189, 10, 24, 117, 217, 83, 202, 87, 98, 198, 210, 127, 169>>>>,
      <<1299, 40,
        <<155, 74, 246, 241, 64, 153, 94, 51, 129, 7, 112, 220, 195, 68, 16, 22,
          126, 112, 54, 84, 211, 71, 168, 210, 99, 194, 230, 114, 192, 233, 37, 36>>>>,
      <<1299, 253,
        <<88, 154, 72, 243, 247, 86, 251, 202, 232, 193, 173, 21, 11, 216, 173, 147,
          93, 248, 24, 128, 17, 63, 169, 1, 113, 255, 88, 210, 204, 60, 203, 170>>>>,
      <<1299, 261,
        <<187, 164, 214, 39, 43, 0, 242, 189, 208, 74, 85, 177, 55, 61, 254, 156,
          199, 215, 50, 105, 79, 142, 28, 7, 81, 43, 31, 169, 75, 5, 167, 111>>>>,
      <<1299, 268,
        <<57, 48, 1, 213, 180, 28, 117, 231, 185, 12, 77, 88, 168, 111, 38, 173,
          59, 224, 49, 60, 46, 41, 236, 182, 176, 65, 143, 247, 121, 132, 133, 190>>>>,
      <<260, 1300,
        <<83, 86, 110, 227, 254, 56, 43, 155, 122, 79, 69, 191, 132, 159, 183, 231,
          247, 78, 174, 174, 180, 59, 218, 239, 62, 171, 143, 49, 151, 246, 103, 250>>>>,
      <<1300, 260,
        <<219, 246, 136, 64, 55, 15, 30, 252, 195, 25, 97, 215, 233, 125, 140, 131,
          125, 219, 245, 173, 98, 172, 17, 129, 216, 38, 1, 125, 110, 172, 191, 121>>>>,
      <<260, 1301,
        <<173, 149, 1, 194, 90, 186, 45, 1, 29, 162, 134, 67, 1, 198, 69, 103,
          144, 102, 140, 78, 161, 198, 129, 160, 80, 0, 195, 218, 156, 186, 229, 69>>>>,
      <<1, 1304,
        <<22, 4, 128, 156, 183, 185, 76, 47, 138, 98, 32, 56, 236, 221, 22, 151,
          185, 10, 82, 67, 205, 179, 143, 136, 126, 72, 142, 98, 28, 181, 49, 172>>>>,
      <<37, 1304,
        <<226, 47, 26, 182, 194, 64, 111, 165, 80, 12, 118, 3, 101, 85, 76, 34,
          249, 204, 119, 78, 111, 79, 207, 26, 118, 75, 179, 213, 25, 233, 239, 207>>>>,
      <<260, 1304,
        <<42, 118, 147, 40, 215, 193, 60, 163, 88, 150, 116, 0, 103, 251, 98, 199,
          182, 167, 34, 184, 143, 105, 134, 187, 96, 87, 187, 173, 219, 156, 14, 36>>>>,
      <<1304, 1,
        <<254, 251, 167, 37, 128, 243, 241, 234, 190, 233, 138, 61, 92, 205, 66, 20,
          98, 65, 27, 198, 150, 149, 46, 131, 13, 225, 243, 17, 240, 121, 155, 52>>>>,
      <<1304, 35,
        <<248, 188, 94, 7, 50, 35, 86, 164, 56, 86, 68, 228, 244, 2, 217, 179,
          217, 67, 222, 255, 156, 218, 160, 222, 9, 182, 83, 72, 132, 71, 181, 124>>>>,
      <<1, 1305,
        <<84, 253, 53, 24, 219, 75, 240, 105, 223, 250, 244, 27, 53, 38, 83, 145,
          169, 236, 33, 63, 83, 222, 229, 13, 25, 224, 196, 171, 228, 119, 116, 196>>>>,
      <<37, 1305,
        <<86, 80, 243, 59, 85, 92, 2, 127, 13, 199, 121, 3, 151, 75, 92, 83,
          10, 138, 53, 77, 107, 199, 234, 84, 19, 134, 217, 59, 218, 134, 6, 194>>>>,
      <<260, 1305,
        <<144, 221, 3, 99, 27, 163, 193, 144, 88, 51, 188, 2, 33, 36, 203, 85,
          148, 120, 91, 62, 91, 177, 132, 22, 167, 137, 47, 149, 83, 138, 29, 217>>>>,
      <<1305, 1,
        <<174, 25, 7, 30, 225, 183, 168, 52, 172, 247, 252, 181, 21, 123, 206, 116,
          210, 63, 121, 4, 101, 213, 210, 23, 253, 77, 234, 9, 5, 255, 34, 75>>>>,
      <<1305, 2,
        <<166, 168, 168, 242, 190, 80, 58, 222, 176, 15, 174, 96, 137, 197, 253, 12,
          210, 111, 250, 48, 248, 93, 99, 183, 152, 58, 61, 99, 140, 232, 59, 168>>>>,
      <<1305, 36,
        <<184, 166, 109, 104, 93, 232, 235, 1, 128, 101, 80, 69, 84, 166, 95, 214,
          166, 91, 187, 61, 190, 250, 108, 202, 31, 184, 106, 56, 202, 19, 121, 7>>>>,
      <<2, 1306,
        <<123, 132, 59, 148, 49, 242, 210, 167, 187, 65, 121, 136, 36, 177, 216, 13,
          162, 169, 48, 9, 218, 251, 127, 227, 63, 237, 103, 122, 204, 132, 113, 134>>>>,
      <<260, 1306,
        <<199, 165, 200, 166, 247, 44, 175, 120, 125, 240, 37, 56, 210, 181, 60, 197,
          45, 241, 199, 64, 143, 80, 89, 171, 180, 138, 199, 212, 131, 229, 137, 108>>>>,
      <<1306, 1,
        <<3, 177, 148, 163, 2, 145, 124, 161, 58, 252, 242, 137, 86, 27, 194, 83,
          27, 169, 18, 158, 2, 219, 190, 35, 15, 72, 187, 185, 58, 109, 53, 53>>>>,
      <<1306, 37,
        <<27, 48, 157, 51, 249, 142, 230, 47, 179, 68, 116, 128, 94, 59, 44, 11,
          105, 52, 48, 250, 0, 54, 204, 235, 255, 6, 90, 68, 144, 64, 158, 213>>>>,
      <<2, 1307,
        <<138, 17, 252, 211, 22, 105, 87, 107, 241, 180, 204, 138, 114, 188, 187, 18,
          199, 105, 69, 38, 69, 199, 173, 227, 117, 22, 0, 39, 81, 146, 197, 30>>>>,
      <<37, 1307,
        <<235, 0, 27, 55, 93, 34, 238, 74, 110, 165, 131, 193, 0, 238, 9, 132,
          44, 63, 2, 247, 202, 113, 201, 244, 205, 218, 243, 85, 230, 126, 164, 193>>>>,
      <<260, 1307,
        <<112, 247, 119, 118, 178, 218, 14, 32, 214, 61, 51, 124, 183, 54, 23, 166,
          255, 27, 177, 161, 46, 144, 196, 192, 15, 74, 108, 152, 116, 50, 151, 21>>>>,
      <<1307, 1,
        <<69, 181, 159, 34, 98, 83, 207, 98, 86, 207, 0, 206, 147, 157, 30, 149,
          92, 230, 77, 71, 84, 176, 90, 235, 8, 133, 110, 237, 52, 27, 222, 214>>>>,
      <<1307, 2,
        <<124, 89, 162, 108, 153, 207, 64, 55, 53, 238, 189, 21, 173, 145, 16, 82,
          34, 101, 222, 176, 8, 206, 63, 145, 90, 28, 16, 11, 189, 111, 211, 98>>>>,
      <<1307, 38,
        <<13, 100, 159, 229, 12, 35, 154, 194, 90, 97, 69, 223, 131, 128, 198, 198,
          137, 116, 68, 235, 9, 199, 123, 203, 17, 15, 101, 150, 184, 47, 87, 188>>>>,
      <<2, 1309,
        <<172, 127, 68, 18, 0, 71, 61, 203, 144, 181, 79, 85, 102, 53, 14, 106,
          246, 43, 207, 222, 39, 17, 248, 66, 175, 136, 230, 220, 212, 127, 226, 84>>>>,
      <<37, 1309,
        <<13, 36, 85, 134, 76, 158, 42, 245, 105, 234, 212, 214, 248, 89, 105, 120,
          111, 118, 255, 118, 237, 125, 85, 47, 230, 244, 60, 119, 226, 227, 113, 227>>>>,
      <<260, 1309,
        <<11, 208, 241, 229, 49, 28, 44, 216, 40, 250, 124, 185, 1, 213, 115, 195,
          245, 92, 25, 122, 107, 196, 49, 228, 22, 48, 157, 64, 48, 133, 147, 80>>>>,
      <<1309, 1,
        <<217, 167, 196, 201, 159, 76, 189, 70, 231, 97, 177, 31, 119, 96, 216, 152,
          217, 171, 149, 18, 36, 22, 38, 249, 111, 128, 109, 90, 19, 105, 213, 233>>>>,
      <<1309, 3,
        <<195, 20, 185, 187, 185, 34, 159, 237, 63, 56, 20, 32, 54, 28, 141, 59,
          60, 93, 11, 103, 235, 200, 29, 135, 29, 151, 91, 102, 61, 11, 209, 111>>>>,
      <<1309, 40,
        <<254, 146, 175, 205, 102, 135, 45, 193, 222, 238, 203, 74, 110, 194, 63, 184,
          38, 194, 54, 250, 59, 250, 202, 169, 81, 72, 94, 72, 212, 81, 232, 137>>>>,
      <<1, 1324,
        <<85, 41, 253, 149, 54, 136, 113, 54, 249, 51, 199, 230, 20, 181, 47, 48,
          63, 4, 117, 136, 113, 2, 197, 54, 58, 97, 127, 181, 233, 1, 9, 95>>>>,
      <<1324, 37,
        <<242, 184, 48, 198, 54, 223, 215, 137, 9, 155, 71, 206, 135, 248, 127, 7,
          151, 204, 45, 48, 185, 206, 64, 72, 69, 174, 106, 174, 158, 167, 158, 127>>>>,
      <<1324, 252,
        <<218, 109, 193, 242, 148, 164, 34, 107, 23, 22, 226, 21, 2, 235, 72, 243,
          145, 132, 22, 103, 187, 89, 35, 106, 81, 207, 82, 149, 190, 231, 38, 17>>>>,
      <<2, 1325,
        <<6, 198, 150, 146, 156, 67, 137, 165, 106, 108, 93, 145, 103, 1, 93, 26,
          193, 227, 242, 199, 136, 29, 0, 1, 249, 134, 189, 53, 108, 168, 242, 178>>>>,
      <<37, 1325,
        <<126, 242, 64, 106, 45, 126, 247, 159, 45, 116, 194, 147, 22, 107, 78, 110,
          167, 103, 46, 16, 16, 251, 197, 47, 26, 251, 145, 178, 144, 249, 86, 54>>>>,
      <<260, 1325,
        <<95, 127, 119, 157, 225, 224, 205, 120, 17, 123, 191, 42, 235, 124, 188, 32,
          46, 224, 181, 96, 64, 174, 204, 25, 190, 215, 229, 36, 119, 50, 60, 181>>>>,
      <<1325, 1,
        <<107, 52, 233, 109, 153, 27, 61, 160, 115, 201, 118, 243, 43, 37, 113, 105,
          231, 47, 229, 74, 87, 142, 230, 236, 213, 217, 74, 96, 21, 59, 148, 196>>>>,
      <<1325, 37,
        <<183, 115, 108, 91, 237, 203, 42, 101, 47, 61, 200, 2, 138, 182, 12, 155,
          201, 99, 40, 239, 15, 112, 240, 69, 38, 72, 81, 47, 195, 138, 133, 54>>>>,
      <<1325, 253,
        <<209, 123, 195, 1, 211, 151, 162, 147, 32, 43, 226, 19, 126, 111, 228, 176,
          166, 87, 202, 213, 164, 144, 67, 94, 210, 28, 231, 35, 66, 229, 13, 73>>>>,
      <<37, 1328,
        <<72, 162, 118, 90, 95, 200, 212, 4, 226, 232, 92, 246, 124, 208, 225, 232,
          118, 144, 20, 75, 134, 136, 197, 60, 246, 40, 25, 245, 115, 107, 218, 41>>>>,
      <<1328, 1,
        <<168, 187, 163, 178, 79, 173, 60, 135, 149, 71, 51, 197, 153, 97, 98, 81,
          242, 192, 205, 172, 134, 172, 204, 29, 43, 44, 144, 100, 112, 176, 117, 24>>>>,
      <<1328, 260,
        <<108, 228, 224, 83, 77, 199, 195, 147, 12, 184, 0, 155, 105, 223, 211, 174,
          36, 85, 102, 118, 196, 150, 206, 93, 97, 60, 123, 119, 216, 114, 117, 61>>>>,
      <<1329, 261,
        <<231, 144, 2, 48, 44, 111, 134, 35, 201, 245, 192, 155, 101, 66, 131, 148,
          51, 161, 159, 144, 71, 135, 113, 115, 232, 133, 245, 255, 42, 49, 153, 76>>>>,
      <<1, 1333,
        <<106, 71, 79, 185, 185, 239, 255, 88, 248, 33, 99, 169, 59, 171, 65, 135,
          254, 189, 69, 54, 39, 63, 31, 91, 159, 216, 102, 159, 159, 142, 255, 221>>>>,
      <<35, 1333,
        <<5, 121, 20, 5, 6, 232, 229, 121, 230, 7, 206, 45, 27, 24, 105, 141,
          84, 192, 215, 181, 252, 194, 169, 50, 73, 153, 187, 222, 105, 123, 17, 65>>>>,
      <<37, 1333,
        <<146, 172, 3, 151, 203, 32, 104, 65, 170, 59, 245, 42, 232, 126, 193, 45,
          108, 101, 71, 97, 110, 186, 167, 216, 31, 154, 17, 96, 246, 216, 187, 41>>>>,
      <<1333, 1,
        <<253, 65, 9, 37, 173, 216, 70, 176, 251, 167, 199, 78, 142, 159, 151, 193,
          28, 36, 201, 211, 67, 216, 151, 118, 139, 165, 25, 248, 18, 137, 172, 83>>>>,
      <<1333, 2,
        <<97, 38, 254, 1, 227, 100, 87, 6, 39, 167, 194, 71, 174, 95, 233, 59,
          242, 90, 147, 158, 114, 86, 78, 191, 216, 223, 59, 73, 30, 233, 37, 96>>>>,
      <<1333, 261,
        <<152, 14, 77, 181, 1, 161, 157, 233, 14, 218, 36, 214, 251, 34, 5, 131,
          132, 139, 138, 169, 88, 39, 209, 110, 35, 50, 180, 55, 74, 5, 192, 180>>>>,
      <<1, 1334,
        <<12, 135, 108, 207, 35, 251, 8, 185, 206, 110, 67, 157, 36, 156, 84, 7,
          75, 42, 214, 23, 212, 196, 72, 152, 52, 113, 105, 110, 172, 165, 190, 15>>>>,
      <<36, 1334,
        <<158, 37, 4, 44, 249, 136, 230, 17, 188, 100, 178, 229, 60, 169, 253, 78,
          40, 153, 117, 130, 166, 100, 77, 14, 127, 167, 59, 213, 246, 36, 54, 71>>>>,
      <<37, 1334,
        <<237, 65, 201, 137, 127, 251, 196, 146, 155, 203, 145, 165, 190, 72, 43, 159,
          120, 130, 140, 136, 18, 6, 162, 160, 35, 249, 128, 219, 186, 93, 175, 62>>>>,
      <<1334, 2,
        <<93, 191, 119, 60, 12, 104, 94, 31, 252, 31, 32, 60, 127, 52, 74, 21,
          200, 218, 192, 80, 166, 92, 131, 135, 56, 127, 164, 91, 113, 182, 156, 146>>>>,
      <<1334, 261,
        <<200, 181, 208, 8, 118, 128, 139, 208, 128, 59, 82, 67, 187, 215, 137, 177,
          121, 88, 165, 47, 5, 9, 254, 18, 251, 41, 113, 40, 97, 150, 209, 106>>>>,
      <<35, 1335,
        <<94, 86, 154, 84, 140, 77, 96, 148, 51, 60, 46, 135, 133, 170, 248, 41,
          38, 233, 110, 220, 13, 152, 161, 44, 236, 233, 164, 173, 34, 108, 163, 229>>>>,
      <<36, 1335,
        <<166, 244, 203, 181, 29, 60, 73, 89, 182, 29, 84, 42, 13, 200, 175, 88,
          223, 228, 9, 115, 60, 120, 249, 11, 236, 26, 234, 74, 66, 62, 195, 36>>>>,
      <<252, 1335,
        <<186, 166, 208, 26, 131, 206, 182, 246, 131, 105, 206, 146, 231, 122, 55, 162,
          230, 123, 68, 145, 205, 55, 195, 75, 127, 52, 72, 52, 116, 82, 149, 193>>>>,
      <<260, 1335,
        <<9, 252, 103, 216, 249, 15, 140, 94, 176, 230, 179, 123, 236, 77, 34, 101,
          162, 42, 220, 224, 85, 213, 222, 236, 40, 150, 195, 148, 38, 119, 69, 107>>>>,
      <<1335, 261,
        <<4, 13, 98, 254, 137, 209, 246, 155, 234, 133, 133, 43, 207, 71, 105, 136,
          201, 191, 119, 114, 16, 226, 132, 6, 139, 136, 194, 253, 92, 27, 1, 119>>>>,
      <<1, 1347,
        <<101, 174, 41, 13, 251, 149, 119, 192, 176, 5, 148, 7, 106, 106, 1, 53,
          117, 185, 63, 232, 39, 120, 91, 133, 122, 16, 121, 220, 132, 64, 171, 85>>>>,
      <<37, 1347,
        <<48, 98, 33, 75, 39, 176, 179, 237, 215, 184, 209, 11, 97, 239, 74, 17,
          76, 103, 98, 73, 58, 198, 175, 29, 62, 244, 40, 213, 43, 43, 73, 50>>>>,
      <<252, 1347,
        <<163, 27, 63, 221, 119, 224, 177, 192, 66, 150, 242, 151, 37, 242, 222, 169,
          112, 253, 35, 247, 245, 79, 63, 71, 118, 58, 133, 235, 144, 12, 25, 172>>>>,
      <<1347, 2,
        <<32, 109, 23, 199, 139, 194, 50, 117, 252, 75, 25, 117, 254, 94, 135, 61,
          120, 91, 208, 189, 192, 122, 88, 150, 55, 76, 49, 35, 212, 34, 3, 25>>>>,
      <<1347, 37,
        <<228, 33, 206, 53, 82, 2, 27, 179, 152, 255, 62, 184, 217, 84, 189, 31,
          139, 205, 202, 111, 90, 152, 144, 195, 205, 166, 16, 181, 181, 196, 163, 89>>>>,
      <<1347, 261,
        <<24, 141, 82, 92, 77, 149, 161, 67, 224, 112, 113, 219, 15, 209, 137, 76,
          180, 155, 64, 175, 220, 87, 54, 217, 9, 118, 91, 195, 99, 209, 231, 98>>>>,
      <<37, 1351,
        <<124, 242, 234, 217, 12, 186, 106, 34, 92, 199, 99, 144, 72, 55, 150, 0,
          170, 19, 18, 54, 38, 196, 6, 116, 150, 30, 129, 47, 134, 56, 20, 144>>>>,
      <<260, 1351,
        <<215, 66, 104, 72, 164, 47, 68, 95, 144, 29, 9, 186, 23, 47, 195, 90,
          184, 143, 158, 117, 216, 56, 221, 228, 25, 16, 187, 123, 66, 167, 118, 205>>>>,
      <<1351, 1,
        <<241, 192, 75, 65, 119, 239, 85, 251, 109, 134, 223, 167, 180, 221, 198, 102,
          8, 220, 22, 15, 190, 15, 175, 116, 242, 55, 95, 171, 105, 204, 93, 86>>>>,
      <<1351, 2,
        <<53, 178, 146, 170, 19, 121, 34, 166, 188, 160, 147, 110, 53, 123, 176, 209,
          180, 95, 137, 17, 174, 152, 156, 61, 48, 242, 97, 121, 181, 31, 90, 228>>>>,
      <<1351, 261,
        <<82, 221, 146, 179, 225, 29, 158, 99, 77, 186, 158, 146, 132, 45, 13, 162,
          219, 236, 237, 183, 88, 252, 215, 223, 205, 0, 1, 252, 184, 182, 176, 178>>>>,
      <<1352, 261,
        <<220, 254, 41, 204, 101, 233, 81, 108, 6, 201, 252, 11, 119, 228, 229, 198,
          86, 251, 25, 189, 215, 228, 78, 88, 227, 186, 153, 225, 56, 57, 240, 45>>>>,
      <<35, 1353,
        <<55, 97, 85, 165, 57, 46, 202, 216, 72, 87, 123, 10, 221, 85, 92, 104,
          236, 24, 138, 185, 5, 83, 52, 137, 214, 64, 220, 165, 28, 56, 77, 219>>>>,
      <<36, 1353,
        <<215, 54, 170, 153, 238, 73, 173, 167, 40, 255, 202, 22, 77, 42, 12, 120,
          164, 26, 38, 247, 89, 231, 190, 247, 131, 19, 48, 237, 246, 162, 1, 125>>>>,
      <<252, 1353,
        <<130, 116, 218, 30, 21, 126, 203, 165, 237, 252, 88, 172, 61, 169, 61, 121,
          15, 43, 199, 99, 49, 94, 128, 27, 234, 133, 122, 103, 208, 31, 147, 251>>>>,
      <<260, 1353,
        <<252, 69, 97, 250, 80, 153, 203, 166, 183, 204, 197, 71, 73, 161, 129, 42,
          134, 238, 159, 22, 48, 78, 41, 55, 2, 3, 142, 102, 21, 167, 60, 192>>>>,
      <<1353, 261,
        <<224, 2, 2, 121, 187, 255, 64, 34, 139, 85, 159, 0, 1, 19, 203, 248,
          198, 106, 94, 95, 191, 44, 178, 176, 54, 63, 94, 184, 74, 66, 109, 2>>>>,
      <<1356, 261,
        <<118, 77, 75, 2, 191, 231, 214, 14, 252, 196, 158, 120, 18, 2, 29, 148,
          139, 82, 29, 42, 85, 219, 237, 76, 37, 127, 243, 214, 98, 144, 117, 105>>>>,
      <<1364, 262,
        <<247, 200, 114, 48, 42, 182, 217, 43, 73, 63, 41, 191, 131, 65, 194, 141,
          212, 226, 131, 44, 201, 33, 5, 0, 57, 23, 11, 38, 137, 94, 207, 133>>>>,
      <<1, 1370,
        <<251, 247, 19, 8, 18, 19, 145, 113, 113, 41, 160, 151, 203, 18, 29, 58,
          37, 220, 242, 5, 18, 148, 94, 170, 31, 139, 8, 35, 176, 113, 60, 63>>>>,
      <<36, 1370,
        <<244, 181, 100, 127, 125, 47, 75, 25, 133, 253, 34, 251, 147, 33, 139, 245,
          165, 10, 22, 199, 107, 79, 226, 112, 225, 108, 245, 27, 117, 66, 194, 52>>>>,
      <<37, 1370,
        <<185, 144, 179, 21, 153, 230, 222, 103, 70, 98, 133, 139, 16, 52, 250, 68,
          141, 144, 149, 118, 51, 80, 92, 147, 85, 78, 251, 144, 217, 190, 163, 222>>>>,
      <<1370, 2,
        <<169, 246, 158, 173, 112, 91, 195, 168, 111, 150, 115, 88, 74, 211, 59, 248,
          116, 54, 50, 220, 26, 12, 205, 221, 209, 201, 180, 177, 241, 201, 9, 142>>>>,
      <<1370, 3,
        <<58, 73, 243, 148, 32, 50, 187, 225, 251, 75, 164, 90, 42, 167, 48, 2,
          199, 49, 245, 129, 192, 20, 17, 101, 214, 130, 53, 103, 75, 153, 204, 48>>>>,
      <<1370, 262,
        <<86, 232, 176, 118, 185, 30, 58, 94, 24, 207, 67, 88, 28, 31, 146, 17,
          134, 231, 61, 83, 57, 76, 145, 214, 0, 13, 236, 121, 49, 139, 219, 165>>>>,
      <<36, 1371,
        <<161, 208, 193, 133, 177, 79, 107, 35, 228, 95, 129, 20, 13, 94, 58, 3,
          79, 36, 1, 155, 248, 150, 172, 94, 246, 169, 141, 88, 194, 81, 19, 88>>>>,
      <<1384, 262,
        <<126, 218, 13, 126, 245, 148, 118, 36, 171, 208, 20, 22, 50, 168, 112, 142,
          160, 58, 68, 214, 33, 154, 135, 249, 137, 83, 109, 225, 122, 104, 41, 223>>>>,
      <<36, 1385,
        <<73, 181, 12, 162, 72, 101, 112, 254, 96, 209, 139, 174, 244, 192, 35, 113,
          17, 48, 244, 80, 148, 59, 177, 190, 200, 216, 88, 249, 64, 189, 165, 76>>>>,
      <<268, 1408,
        <<17, 149, 207, 41, 32, 242, 113, 45, 249, 97, 21, 163, 43, 165, 201, 5,
          74, 176, 42, 209, 249, 198, 172, 88, 150, 72, 58, 59, 102, 68, 47, 104>>>>,
      <<1408, 268,
        <<101, 24, 85, 215, 105, 223, 25, 236, 217, 62, 246, 94, 71, 49, 137, 118,
          239, 17, 150, 2, 160, 192, 121, 35, 142, 17, 207, 127, 205, 237, 155, 195>>>>,
      <<1, 1412,
        <<210, 179, 93, 118, 189, 247, 219, 147, 211, 38, 148, 60, 202, 201, 131, 245,
          49, 28, 244, 122, 78, 227, 65, 82, 94, 151, 143, 14, 182, 175, 252, 33>>>>,
      <<35, 1412,
        <<59, 86, 54, 85, 147, 215, 38, 185, 52, 50, 215, 153, 143, 8, 116, 110,
          215, 82, 67, 39, 228, 23, 16, 249, 12, 189, 131, 73, 201, 4, 249, 114>>>>,
      <<37, 1412,
        <<84, 26, 56, 67, 74, 35, 197, 24, 220, 60, 106, 20, 223, 123, 60, 141,
          248, 36, 12, 14, 215, 200, 147, 172, 240, 45, 197, 152, 180, 129, 55, 106>>>>,
      <<1412, 1,
        <<227, 119, 126, 106, 103, 213, 227, 91, 13, 243, 19, 159, 207, 175, 229, 90,
          10, 235, 192, 68, 74, 42, 138, 222, 49, 48, 178, 143, 254, 19, 6, 193>>>>,
      <<1412, 37,
        <<213, 109, 52, 221, 30, 237, 71, 92, 140, 49, 134, 149, 150, 249, 110, 253,
          185, 230, 182, 171, 109, 181, 45, 94, 84, 216, 57, 203, 237, 36, 188, 212>>>>,
      <<1412, 268,
        <<171, 228, 90, 32, 7, 190, 134, 2, 223, 15, 4, 209, 42, 18, 130, 26,
          1, 236, 84, 195, 198, 237, 255, 223, 7, 34, 92, 227, 57, 194, 42, 150>>>>,
      <<1, 1413,
        <<44, 177, 195, 48, 116, 149, 220, 94, 229, 209, 152, 170, 203, 219, 89, 114,
          87, 71, 249, 29, 10, 184, 196, 78, 205, 209, 136, 125, 238, 174, 234, 247>>>>,
      <<36, 1413,
        <<56, 43, 219, 41, 0, 106, 156, 25, 250, 128, 149, 123, 55, 132, 125, 40,
          87, 111, 184, 199, 40, 96, 246, 225, 106, 95, 12, 8, 240, 222, 236, 33>>>>,
      <<37, 1413,
        <<156, 53, 44, 25, 41, 111, 199, 238, 36, 20, 88, 146, 67, 187, 88, 182,
          106, 30, 255, 100, 128, 70, 24, 159, 27, 177, 239, 59, 255, 41, 219, 54>>>>,
      <<1413, 2,
        <<79, 197, 29, 236, 243, 234, 139, 221, 140, 222, 7, 38, 91, 118, 191, 185,
          163, 59, 26, 48, 148, 86, 124, 139, 79, 162, 64, 181, 40, 201, 47, 175>>>>,
      <<1413, 37,
        <<132, 215, 17, 45, 185, 7, 55, 10, 186, 12, 45, 194, 68, 165, 136, 69,
          42, 118, 109, 109, 39, 55, 111, 70, 29, 244, 107, 11, 72, 42, 18, 129>>>>,
      <<1413, 268,
        <<146, 254, 18, 246, 215, 239, 253, 13, 137, 214, 171, 182, 161, 143, 249, 193,
          90, 26, 177, 63, 48, 46, 52, 26, 8, 77, 9, 149, 44, 95, 57, 92>>>>,
      <<35, 1414,
        <<17, 226, 194, 156, 69, 52, 228, 15, 26, 193, 153, 111, 110, 181, 54, 107,
          237, 125, 116, 15, 249, 132, 188, 13, 185, 179, 65, 242, 89, 66, 253, 115>>>>,
      <<36, 1414,
        <<216, 189, 28, 250, 251, 109, 72, 75, 199, 201, 69, 133, 44, 40, 197, 71,
          73, 240, 13, 24, 50, 25, 21, 232, 168, 47, 116, 3, 247, 181, 202, 197>>>>,
      <<252, 1414,
        <<204, 23, 154, 115, 24, 192, 25, 197, 246, 225, 253, 133, 194, 16, 156, 158,
          131, 182, 183, 173, 60, 113, 163, 199, 146, 207, 224, 79, 2, 1, 6, 230>>>>,
      <<260, 1414,
        <<77, 8, 233, 5, 97, 140, 132, 81, 165, 167, 144, 96, 253, 236, 189, 26,
          60, 37, 45, 200, 169, 24, 244, 16, 150, 8, 142, 146, 50, 208, 14, 20>>>>,
      <<268, 1414,
        <<211, 35, 135, 45, 74, 88, 85, 249, 81, 82, 139, 134, 17, 89, 175, 248,
          160, 254, 1, 99, 15, 4, 170, 39, 1, 223, 239, 48, 178, 112, 8, 203>>>>,
      <<1414, 35,
        <<192, 137, 16, 136, 8, 177, 109, 251, 83, 187, 99, 177, 20, 8, 111, 19,
          2, 154, 72, 196, 53, 206, 155, 52, 251, 195, 190, 49, 24, 13, 190, 235>>>>,
      <<1414, 36,
        <<198, 111, 197, 187, 158, 107, 172, 176, 213, 214, 237, 176, 149, 227, 230, 165,
          30, 206, 140, 245, 243, 193, 246, 37, 64, 137, 181, 140, 182, 32, 85, 191>>>>,
      <<1414, 268,
        <<80, 21, 216, 53, 191, 25, 236, 152, 213, 211, 97, 224, 13, 159, 218, 214,
          80, 246, 34, 210, 73, 153, 223, 59, 11, 251, 230, 252, 56, 119, 226, 119>>>>,
      <<1, 1425,
        <<159, 254, 222, 49, 151, 42, 221, 75, 110, 211, 109, 220, 2, 85, 206, 59,
          243, 227, 239, 21, 57, 73, 12, 86, 61, 182, 239, 152, 220, 106, 205, 109>>>>,
      <<37, 1425,
        <<94, 219, 55, 154, 183, 186, 171, 232, 80, 85, 237, 224, 225, 211, 91, 172,
          203, 20, 8, 89, 154, 167, 200, 186, 164, 244, 147, 95, 106, 77, 93, 105>>>>,
      <<252, 1425,
        <<51, 131, 144, 50, 134, 182, 54, 239, 40, 135, 116, 98, 93, 219, 194, 29,
          153, 118, 91, 76, 78, 16, 65, 225, 111, 212, 95, 87, 241, 243, 214, 149>>>>,
      <<1425, 37,
        <<10, 190, 41, 185, 130, 235, 77, 228, 60, 141, 129, 30, 71, 227, 91, 84,
          117, 217, 177, 26, 253, 104, 61, 156, 101, 201, 242, 111, 54, 239, 122, 34>>>>,
      <<1425, 268,
        <<206, 51, 151, 38, 53, 82, 222, 216, 206, 188, 234, 44, 66, 166, 122, 33,
          61, 204, 64, 73, 210, 222, 150, 228, 154, 177, 205, 115, 110, 45, 1, 87>>>>,
      <<37, 1428,
        <<52, 70, 58, 234, 117, 100, 182, 88, 149, 87, 241, 94, 177, 110, 158, 253,
          150, 110, 14, 5, 1, 223, 145, 12, 120, 68, 53, 139, 173, 242, 156, 201>>>>,
      <<260, 1428,
        <<196, 94, 240, 15, 200, 7, 74, 251, 28, 60, 72, 235, 183, 178, 167, 114,
          49, 106, 134, 10, 31, 73, 7, 166, 116, 126, 93, 22, 65, 73, 32, 198>>>>,
      <<1428, 1,
        <<153, 245, 155, 191, 36, 79, 83, 188, 240, 233, 210, 208, 46, 252, 198, 25,
          72, 173, 68, 97, 96, 136, 119, 239, 254, 76, 65, 161, 53, 68, 237, 226>>>>,
      <<1428, 37,
        <<37, 144, 211, 222, 3, 255, 132, 132, 176, 176, 139, 150, 223, 153, 180, 123,
          93, 131, 76, 170, 203, 51, 215, 75, 12, 218, 238, 13, 99, 53, 226, 53>>>>,
      <<1428, 268,
        <<185, 88, 87, 195, 158, 40, 129, 13, 9, 58, 67, 174, 63, 149, 85, 52,
          224, 208, 121, 56, 176, 86, 244, 95, 112, 160, 132, 12, 251, 202, 105, 46>>>>,
      <<268, 1431,
        <<185, 98, 195, 42, 29, 23, 95, 180, 249, 10, 90, 229, 69, 53, 227, 164,
          110, 111, 72, 212, 123, 176, 150, 82, 126, 86, 76, 206, 198, 185, 109, 27>>>>,
      <<1431, 268,
        <<105, 248, 163, 216, 167, 164, 208, 239, 47, 33, 103, 91, 59, 160, 71, 213,
          222, 92, 235, 183, 133, 76, 224, 84, 212, 210, 176, 147, 58, 30, 238, 131>>>>,
      <<268, 1432,
        <<219, 123, 158, 25, 232, 19, 105, 43, 241, 48, 49, 0, 253, 45, 235, 147,
          186, 239, 82, 113, 217, 65, 119, 115, 48, 41, 86, 109, 85, 111, 204, 172>>>>,
      <<1432, 268,
        <<114, 2, 68, 87, 71, 153, 156, 5, 48, 31, 125, 117, 120, 225, 7, 30,
          171, 24, 246, 245, 227, 109, 181, 191, 39, 137, 78, 134, 110, 98, 36, 142>>>>,
      <<1, 1435,
        <<31, 80, 82, 54, 69, 208, 153, 167, 15, 18, 208, 158, 144, 131, 36, 99,
          178, 18, 192, 95, 93, 205, 133, 175, 152, 229, 161, 30, 43, 93, 89, 193>>>>,
      <<37, 1435,
        <<188, 219, 46, 10, 210, 232, 152, 126, 103, 238, 75, 109, 19, 222, 17, 9,
          140, 113, 115, 75, 137, 210, 57, 197, 37, 184, 117, 126, 154, 2, 110, 186>>>>,
      <<268, 1435,
        <<188, 151, 171, 125, 76, 35, 219, 65, 251, 124, 34, 130, 80, 110, 96, 238,
          248, 28, 189, 67, 37, 4, 122, 210, 30, 100, 90, 125, 144, 60, 191, 172>>>>,
      <<1435, 1,
        <<135, 104, 244, 57, 236, 235, 160, 126, 213, 207, 192, 159, 159, 169, 196, 143,
          241, 196, 228, 160, 72, 26, 166, 11, 146, 68, 97, 59, 28, 2, 28, 20>>>>,
      <<1435, 35,
        <<95, 121, 61, 86, 31, 232, 109, 186, 68, 105, 94, 0, 169, 200, 200, 82,
          208, 33, 6, 186, 131, 246, 179, 164, 31, 23, 129, 228, 79, 73, 119, 125>>>>,
      <<1435, 37,
        <<8, 133, 98, 129, 254, 245, 131, 149, 70, 221, 249, 94, 64, 148, 207, 53,
          4, 47, 80, 19, 63, 199, 15, 205, 176, 136, 126, 220, 167, 60, 31, 233>>>>,
      <<1, 1436,
        <<46, 204, 251, 37, 25, 182, 125, 57, 143, 52, 215, 177, 153, 44, 232, 246,
          39, 240, 147, 0, 144, 249, 247, 188, 119, 108, 125, 204, 195, 122, 229, 141>>>>,
      <<37, 1436,
        <<99, 228, 228, 137, 103, 144, 76, 21, 109, 95, 174, 114, 137, 183, 93, 183,
          54, 219, 49, 244, 194, 179, 10, 236, 123, 251, 57, 133, 70, 235, 199, 173>>>>,
      <<268, 1436,
        <<235, 109, 65, 79, 31, 43, 191, 174, 206, 5, 239, 152, 124, 190, 37, 202,
          115, 98, 212, 231, 203, 232, 21, 122, 45, 174, 96, 129, 183, 253, 108, 27>>>>,
      <<1436, 2,
        <<29, 6, 221, 229, 172, 236, 13, 39, 32, 66, 150, 19, 47, 22, 57, 205,
          3, 200, 3, 154, 233, 115, 23, 154, 93, 40, 228, 115, 234, 169, 49, 123>>>>,
      <<1436, 36,
        <<89, 62, 206, 72, 254, 153, 16, 232, 251, 87, 22, 151, 159, 17, 235, 88,
          50, 33, 61, 197, 24, 92, 192, 221, 222, 8, 80, 207, 45, 92, 4, 205>>>>,
      <<1436, 37,
        <<217, 31, 118, 138, 227, 155, 58, 253, 116, 196, 238, 67, 78, 112, 187, 40,
          127, 8, 232, 166, 67, 29, 145, 29, 221, 71, 77, 166, 49, 157, 19, 122>>>>,
      <<35, 1437,
        <<134, 20, 219, 104, 104, 67, 163, 101, 7, 214, 50, 115, 215, 244, 41, 20,
          223, 196, 211, 91, 204, 152, 173, 95, 148, 123, 33, 104, 6, 242, 89, 180>>>>,
      <<36, 1437,
        <<25, 105, 141, 240, 196, 78, 234, 38, 251, 97, 100, 105, 189, 111, 19, 227,
          125, 195, 234, 64, 152, 97, 167, 203, 94, 193, 127, 159, 5, 129, 118, 28>>>>,
      <<252, 1437,
        <<192, 134, 252, 62, 165, 132, 251, 14, 222, 78, 58, 161, 253, 184, 161, 90,
          8, 206, 233, 219, 176, 188, 5, 50, 104, 186, 150, 228, 101, 229, 4, 137>>>>,
      <<260, 1437,
        <<116, 51, 76, 165, 133, 82, 255, 246, 142, 156, 12, 154, 245, 20, 96, 234,
          62, 180, 212, 67, 58, 86, 249, 132, 32, 183, 161, 78, 81, 68, 65, 31>>>>,
      <<268, 1437,
        <<91, 178, 252, 12, 249, 19, 12, 143, 29, 79, 179, 138, 58, 180, 73, 169,
          216, 97, 160, 200, 200, 18, 93, 205, 0, 227, 148, 56, 184, 255, 169, 186>>>>,
      <<1437, 35,
        <<156, 96, 150, 228, 216, 237, 42, 196, 216, 99, 84, 132, 85, 124, 99, 23,
          45, 23, 223, 213, 253, 193, 24, 160, 197, 162, 162, 6, 214, 90, 129, 82>>>>,
      <<1437, 36,
        <<172, 63, 165, 86, 185, 121, 188, 165, 154, 160, 59, 1, 247, 15, 223, 240,
          23, 105, 122, 194, 201, 137, 245, 141, 217, 59, 46, 48, 182, 218, 19, 59>>>>,
      <<1437, 268,
        <<22, 205, 105, 11, 88, 212, 242, 181, 120, 220, 173, 130, 95, 181, 41, 32,
          13, 230, 72, 70, 205, 154, 68, 119, 31, 0, 24, 8, 151, 102, 196, 135>>>>,
      <<1, 1449,
        <<172, 242, 183, 27, 204, 136, 17, 244, 78, 199, 45, 77, 41, 111, 160, 131,
          60, 209, 106, 105, 51, 173, 14, 241, 225, 60, 56, 197, 70, 192, 144, 102>>>>,
      <<1449, 37,
        <<230, 136, 84, 252, 226, 8, 141, 137, 57, 228, 175, 7, 84, 218, 181, 40,
          55, 249, 73, 159, 214, 127, 187, 223, 139, 83, 224, 179, 135, 184, 27, 75>>>>,
      <<1449, 252,
        <<226, 155, 191, 215, 249, 186, 170, 204, 134, 224, 3, 112, 44, 109, 198, 95,
          129, 79, 166, 41, 218, 70, 39, 144, 171, 77, 42, 48, 92, 189, 79, 177>>>>,
      <<37, 1452,
        <<98, 148, 106, 204, 217, 36, 175, 144, 199, 177, 73, 157, 64, 244, 7, 226,
          100, 81, 151, 244, 45, 64, 250, 251, 37, 222, 204, 11, 187, 230, 162, 224>>>>,
      <<1452, 1,
        <<142, 169, 184, 145, 255, 41, 30, 248, 250, 3, 154, 25, 104, 192, 186, 221,
          62, 83, 66, 0, 106, 5, 85, 192, 184, 74, 142, 199, 41, 196, 21, 220>>>>,
      <<1452, 260,
        <<87, 178, 206, 26, 188, 212, 42, 52, 110, 239, 218, 130, 179, 239, 117, 237,
          225, 250, 94, 84, 233, 249, 211, 135, 53, 115, 145, 158, 147, 56, 197, 238>>>>,
      <<37, 1455,
        <<197, 49, 205, 206, 161, 224, 149, 103, 176, 29, 152, 207, 210, 153, 14, 132,
          14, 123, 114, 204, 49, 198, 207, 38, 88, 83, 147, 65, 109, 149, 4, 129>>>>,
      <<1455, 37,
        <<25, 176, 48, 236, 157, 202, 231, 57, 131, 240, 32, 235, 130, 247, 25, 59,
          226, 138, 63, 16, 20, 136, 89, 143, 178, 78, 209, 155, 176, 151, 203, 221>>>>,
      <<1455, 268,
        <<87, 65, 122, 75, 154, 21, 19, 172, 45, 9, 166, 125, 149, 156, 175, 188,
          190, 73, 98, 29, 36, 234, 200, 83, 161, 87, 17, 146, 101, 49, 249, 89>>>>,
      <<1466, 38,
        <<91, 134, 233, 6, 66, 125, 4, 32, 109, 183, 135, 31, 184, 76, 68, 50,
          82, 35, 91, 39, 174, 4, 125, 139, 250, 78, 150, 197, 104, 86, 62, 66>>>>,
      <<35, 1467,
        <<87, 128, 114, 221, 180, 42, 80, 160, 168, 176, 23, 67, 172, 254, 93, 6,
          18, 125, 155, 127, 108, 117, 95, 38, 223, 23, 193, 69, 230, 105, 245, 22>>>>,
      <<1473, 1,
        <<155, 7, 252, 214, 180, 234, 184, 172, 250, 181, 155, 133, 27, 237, 140, 108,
          169, 122, 116, 225, 242, 214, 8, 136, 151, 112, 193, 31, 37, 188, 8, 35>>>>,
      <<1473, 2,
        <<127, 151, 29, 120, 203, 241, 36, 110, 168, 253, 225, 166, 202, 234, 249, 79,
          192, 158, 153, 7, 214, 168, 53, 255, 7, 250, 123, 10, 155, 47, 16, 198>>>>,
      <<1473, 33,
        <<66, 210, 0, 49, 51, 197, 210, 64, 237, 92, 178, 236, 217, 179, 170, 9,
          23, 211, 236, 105, 9, 146, 248, 41, 72, 77, 11, 249, 88, 239, 103, 166>>>>,
      <<1473, 34,
        <<105, 9, 73, 28, 243, 240, 193, 110, 194, 94, 193, 246, 125, 42, 101, 242,
          232, 35, 18, 44, 135, 175, 91, 82, 195, 101, 80, 206, 22, 205, 250, 84>>>>,
      <<1473, 35,
        <<13, 0, 101, 85, 16, 174, 41, 204, 37, 103, 65, 130, 39, 173, 133, 80,
          251, 208, 189, 102, 38, 83, 145, 80, 13, 73, 18, 85, 55, 93, 167, 231>>>>,
      <<1473, 38,
        <<169, 60, 62, 86, 177, 60, 68, 169, 208, 140, 96, 46, 119, 181, 97, 85,
          161, 26, 249, 227, 174, 207, 159, 207, 167, 246, 155, 56, 52, 238, 10, 247>>>>,
      <<1473, 274,
        <<53, 173, 111, 179, 83, 245, 114, 23, 177, 175, 71, 139, 42, 26, 96, 94,
          203, 245, 132, 112, 219, 123, 147, 60, 79, 164, 38, 38, 127, 51, 255, 2>>>>,
      <<1, 1474,
        <<99, 217, 176, 33, 69, 195, 200, 75, 235, 79, 8, 115, 222, 193, 71, 214,
          171, 22, 23, 61, 103, 80, 15, 79, 90, 0, 84, 23, 113, 253, 12, 48>>>>,
      <<2, 1474,
        <<99, 101, 59, 68, 177, 12, 254, 88, 191, 152, 119, 22, 185, 32, 217, 77,
          194, 128, 172, 202, 236, 195, 254, 4, 241, 136, 27, 244, 229, 198, 149, 210>>>>,
      <<33, 1474,
        <<141, 52, 170, 170, 241, 71, 94, 57, 47, 122, 111, 56, 171, 198, 252, 37,
          12, 37, 69, 211, 198, 136, 14, 62, 173, 255, 192, 173, 73, 107, 57, 239>>>>,
      <<34, 1474,
        <<249, 156, 72, 144, 36, 149, 26, 136, 203, 30, 216, 132, 127, 241, 208, 116,
          54, 55, 184, 133, 76, 201, 120, 115, 30, 203, 89, 120, 120, 192, 232, 227>>>>,
      <<35, 1474,
        <<208, 255, 229, 207, 14, 6, 93, 72, 186, 41, 213, 5, 35, 19, 125, 87,
          201, 204, 64, 41, 100, 232, 250, 176, 109, 153, 219, 57, 61, 22, 158, 28>>>>,
      <<38, 1474,
        <<222, 246, 198, 47, 179, 189, 154, 144, 50, 213, 83, 252, 9, 3, 224, 83,
          118, 109, 109, 204, 218, 136, 39, 207, 81, 219, 224, 58, 6, 95, 121, 227>>>>,
      <<274, 1474,
        <<168, 5, 196, 194, 45, 100, 34, 17, 241, 124, 178, 50, 236, 232, 212, 192,
          64, 38, 67, 101, 227, 36, 125, 221, 167, 235, 118, 79, 151, 219, 183, 58>>>>,
      <<1480, 1,
        <<37, 234, 77, 175, 124, 68, 251, 151, 252, 74, 219, 12, 190, 168, 168, 241,
          241, 6, 82, 219, 228, 234, 253, 70, 190, 8, 128, 186, 240, 4, 2, 184>>>>,
      <<1480, 2,
        <<225, 55, 5, 84, 119, 130, 170, 126, 95, 26, 45, 20, 238, 225, 75, 90,
          164, 19, 170, 83, 247, 33, 36, 163, 18, 248, 130, 0, 39, 226, 162, 198>>>>,
      <<1480, 33,
        <<24, 166, 57, 108, 192, 241, 35, 119, 194, 109, 163, 127, 114, 27, 69, 254,
          48, 156, 139, 22, 24, 116, 95, 225, 33, 114, 52, 16, 46, 252, 37, 222>>>>,
      <<1480, 34,
        <<143, 34, 121, 221, 191, 195, 109, 245, 217, 224, 205, 195, 153, 255, 138, 58,
          46, 148, 63, 198, 199, 103, 228, 26, 98, 121, 109, 104, 155, 214, 74, 188>>>>,
      <<1480, 36,
        <<132, 104, 28, 69, 116, 225, 151, 221, 195, 96, 4, 254, 249, 165, 247, 133,
          27, 243, 15, 67, 39, 186, 73, 199, 22, 109, 222, 126, 195, 89, 51, 2>>>>,
      <<1480, 38,
        <<215, 243, 212, 88, 225, 153, 177, 204, 124, 52, 170, 2, 30, 82, 143, 174,
          223, 179, 52, 142, 29, 184, 45, 129, 223, 251, 9, 38, 41, 71, 4, 231>>>>,
      <<1480, 275,
        <<106, 188, 239, 218, 213, 199, 253, 39, 251, 67, 88, 19, 30, 107, 88, 201,
          18, 101, 95, 151, 122, 30, 166, 7, 79, 117, 163, 62, 98, 36, 65, 42>>>>,
      <<36, 1481,
        <<41, 114, 62, 209, 62, 254, 214, 227, 197, 105, 146, 249, 43, 203, 116, 184,
          240, 124, 173, 5, 183, 17, 44, 73, 127, 243, 150, 90, 152, 107, 50, 222>>>>,
      <<1, 1488,
        <<11, 67, 205, 84, 235, 67, 170, 77, 49, 87, 127, 39, 113, 153, 205, 1,
          120, 48, 128, 14, 7, 113, 239, 177, 164, 222, 186, 197, 19, 224, 245, 124>>>>,
      <<2, 1488,
        <<53, 13, 85, 170, 178, 19, 7, 249, 220, 28, 68, 149, 71, 79, 232, 128,
          46, 174, 35, 83, 123, 250, 239, 113, 0, 172, 24, 149, 27, 137, 148, 168>>>>,
      <<33, 1488,
        <<195, 229, 92, 32, 30, 82, 184, 213, 68, 46, 8, 136, 6, 169, 5, 154,
          129, 169, 84, 155, 143, 118, 254, 167, 98, 97, 75, 169, 194, 44, 40, 204>>>>,
      <<34, 1488,
        <<227, 15, 139, 128, 235, 12, 214, 17, 223, 144, 232, 202, 222, 173, 11, 225,
          30, 60, 164, 221, 151, 120, 106, 217, 141, 49, 151, 41, 195, 125, 158, 107>>>>,
      <<36, 1488,
        <<179, 44, 46, 158, 153, 228, 53, 35, 14, 100, 180, 82, 135, 99, 95, 244,
          80, 164, 109, 243, 36, 51, 56, 92, 199, 248, 76, 115, 174, 231, 255, 63>>>>,
      <<38, 1488,
        <<58, 27, 28, 180, 115, 186, 238, 187, 78, 192, 47, 249, 170, 200, 95, 89,
          152, 91, 243, 220, 203, 149, 62, 247, 244, 100, 99, 138, 208, 110, 125, 64>>>>,
      <<275, 1488,
        <<205, 176, 160, 151, 230, 2, 3, 36, 83, 216, 149, 175, 41, 41, 49, 62,
          249, 214, 42, 158, 105, 202, 123, 96, 55, 232, 69, 217, 135, 225, 95, 230>>>>,
      <<1488, 38,
        <<186, 203, 5, 83, 186, 178, 149, 241, 71, 230, 134, 148, 18, 106, 229, 7,
          83, 92, 96, 180, 106, 203, 119, 75, 31, 90, 158, 42, 170, 52, 219, 129>>>>,
      <<1, 1526,
        <<195, 6, 180, 158, 9, 249, 92, 212, 10, 48, 214, 135, 147, 64, 252, 20,
          23, 23, 173, 214, 12, 249, 22, 145, 61, 93, 251, 199, 190, 183, 2, 246>>>>,
      <<2, 1526,
        <<155, 38, 201, 118, 37, 29, 246, 100, 15, 99, 184, 212, 248, 86, 233, 102,
          210, 161, 164, 24, 67, 166, 49, 110, 12, 136, 69, 83, 85, 170, 68, 23>>>>,
      <<3, 1526,
        <<144, 245, 32, 89, 23, 100, 148, 212, 88, 125, 151, 164, 182, 58, 217, 42,
          100, 138, 163, 2, 249, 185, 116, 183, 231, 86, 72, 247, 197, 21, 172, 46>>>>,
      <<33, 1526,
        <<72, 135, 239, 227, 14, 121, 127, 163, 187, 148, 242, 194, 144, 217, 247, 137,
          227, 8, 220, 140, 34, 230, 7, 24, 71, 115, 16, 33, 80, 137, 14, 214>>>>,
      <<34, 1526,
        <<150, 67, 201, 116, 251, 26, 78, 114, 129, 90, 45, 108, 146, 153, 161, 224,
          28, 58, 228, 240, 255, 33, 144, 64, 169, 122, 216, 40, 164, 200, 23, 122>>>>,
      <<36, 1526,
        <<80, 138, 88, 58, 92, 186, 46, 8, 207, 106, 225, 124, 246, 18, 33, 185,
          121, 89, 75, 196, 126, 12, 73, 100, 22, 217, 143, 249, 23, 79, 209, 166>>>>,
      <<39, 1526,
        <<202, 97, 36, 50, 233, 190, 63, 232, 54, 251, 139, 160, 241, 118, 110, 184,
          222, 141, 167, 109, 173, 98, 81, 94, 69, 100, 23, 156, 60, 200, 7, 119>>>>,
      <<299, 1526,
        <<101, 100, 204, 122, 103, 109, 123, 187, 148, 79, 189, 142, 5, 55, 83, 203,
          189, 155, 3, 137, 32, 153, 72, 57, 131, 9, 213, 4, 55, 253, 73, 62>>>>,
      <<1526, 39,
        <<81, 22, 158, 67, 97, 72, 166, 49, 169, 170, 220, 244, 206, 28, 40, 207,
          6, 251, 249, 56, 229, 143, 152, 172, 250, 157, 22, 197, 206, 208, 27, 39>>>>,
      <<1534, 1,
        <<11, 103, 40, 50, 48, 135, 123, 203, 224, 17, 136, 236, 110, 253, 12, 31,
          51, 85, 37, 180, 211, 93, 99, 113, 0, 227, 96, 193, 212, 231, 149, 88>>>>,
      <<1534, 2,
        <<192, 122, 209, 221, 193, 81, 177, 176, 129, 38, 115, 114, 47, 47, 17, 121,
          105, 65, 49, 112, 182, 104, 138, 3, 112, 63, 88, 68, 34, 215, 114, 82>>>>,
      <<1534, 3,
        <<170, 159, 9, 179, 31, 186, 11, 235, 189, 190, 245, 240, 229, 152, 91, 48,
          235, 44, 59, 191, 165, 153, 189, 198, 210, 99, 118, 51, 168, 213, 133, 18>>>>,
      <<1534, 33,
        <<4, 187, 240, 140, 35, 73, 178, 199, 99, 215, 114, 63, 199, 38, 206, 177,
          79, 179, 225, 236, 29, 175, 17, 235, 243, 176, 6, 74, 191, 152, 123, 207>>>>,
      <<1534, 34,
        <<44, 95, 106, 76, 251, 235, 120, 211, 93, 5, 163, 248, 59, 45, 107, 51,
          150, 162, 228, 13, 246, 70, 255, 1, 97, 125, 209, 128, 112, 32, 248, 65>>>>,
      <<1534, 36,
        <<165, 52, 207, 36, 181, 118, 141, 241, 217, 172, 150, 113, 205, 76, 225, 151,
          135, 185, 29, 182, 138, 6, 199, 222, 226, 115, 101, 1, 64, 131, 156, 50>>>>,
      <<1534, 39,
        <<194, 121, 147, 4, 55, 229, 178, 203, 21, 3, 143, 133, 97, 136, 75, 57,
          187, 133, 238, 115, 172, 12, 41, 210, 195, 109, 217, 204, 183, 245, 129, 231>>>>,
      <<1534, 299,
        <<90, 95, 107, 214, 132, 196, 21, 87, 83, 149, 23, 164, 40, 87, 167, 139,
          102, 85, 210, 156, 161, 167, 219, 10, 159, 242, 2, 229, 253, 84, 101, 122>>>>,
      <<1, 1535,
        <<31, 205, 111, 131, 170, 71, 226, 136, 187, 39, 248, 215, 212, 151, 177, 62,
          71, 153, 72, 232, 188, 196, 48, 15, 131, 52, 77, 152, 187, 3, 194, 60>>>>,
      <<2, 1535,
        <<168, 95, 64, 253, 235, 170, 112, 48, 150, 167, 135, 175, 145, 76, 69, 204,
          94, 231, 89, 104, 134, 28, 218, 215, 67, 166, 36, 185, 65, 115, 55, 176>>>>,
      <<3, 1535,
        <<75, 169, 242, 203, 182, 55, 135, 248, 153, 109, 44, 211, 114, 50, 129, 27,
          252, 176, 42, 219, 227, 215, 15, 20, 159, 232, 0, 178, 118, 221, 98, 58>>>>,
      <<33, 1535,
        <<32, 65, 128, 43, 34, 137, 209, 237, 55, 178, 75, 164, 255, 245, 190, 234,
          197, 114, 216, 39, 247, 153, 137, 112, 195, 62, 143, 180, 107, 122, 193, 215>>>>,
      <<34, 1535,
        <<135, 21, 42, 241, 221, 9, 112, 116, 118, 153, 217, 192, 156, 248, 79, 27,
          223, 198, 210, 149, 186, 93, 64, 33, 152, 234, 158, 159, 82, 36, 0, 164>>>>,
      <<36, 1535,
        <<70, 149, 236, 214, 161, 51, 9, 215, 163, 106, 37, 53, 164, 122, 239, 188,
          113, 101, 54, 40, 229, 57, 231, 215, 18, 94, 123, 234, 107, 236, 1, 236>>>>,
      <<39, 1535,
        <<249, 78, 50, 46, 5, 161, 33, 164, 96, 188, 160, 162, 114, 193, 102, 211,
          1, 14, 17, 236, 205, 106, 63, 165, 12, 20, 57, 31, 145, 68, 199, 140>>>>,
      <<299, 1535,
        <<130, 123, 178, 30, 1, 55, 73, 68, 83, 242, 35, 178, 136, 251, 243, 91,
          231, 188, 141, 2, 22, 184, 8, 140, 145, 194, 223, 249, 65, 41, 111, 83>>>>,
      <<1582, 40,
        <<190, 163, 61, 10, 222, 25, 130, 185, 235, 234, 99, 235, 168, 187, 18, 14,
          37, 7, 205, 137, 50, 96, 220, 102, 161, 46, 89, 103, 109, 132, 226, 60>>>>,
      <<1, 1583,
        <<136, 242, 229, 155, 135, 53, 72, 148, 160, 12, 239, 168, 101, 159, 125, 121,
          120, 39, 147, 255, 41, 179, 162, 0, 44, 233, 78, 43, 184, 32, 65, 18>>>>,
      <<2, 1583,
        <<59, 13, 225, 188, 37, 227, 72, 162, 138, 194, 188, 42, 75, 50, 39, 65,
          154, 181, 165, 246, 66, 228, 66, 128, 171, 28, 136, 132, 197, 84, 13, 1>>>>,
      <<3, 1583,
        <<11, 31, 200, 114, 222, 240, 151, 206, 107, 19, 91, 55, 135, 82, 233, 163,
          167, 145, 79, 64, 77, 235, 194, 70, 218, 203, 86, 182, 122, 242, 24, 236>>>>,
      <<33, 1583,
        <<24, 180, 213, 122, 83, 156, 80, 90, 107, 224, 91, 54, 107, 96, 2, 187,
          109, 51, 69, 186, 132, 166, 39, 33, 109, 15, 166, 69, 84, 77, 147, 35>>>>,
      <<34, 1583,
        <<173, 14, 104, 183, 166, 75, 179, 49, 57, 51, 147, 78, 56, 84, 83, 146,
          31, 70, 187, 72, 148, 18, 84, 255, 27, 13, 244, 3, 133, 186, 192, 234>>>>,
      <<35, 1583,
        <<125, 193, 88, 174, 60, 177, 159, 225, 22, 244, 27, 5, 97, 95, 142, 192,
          133, 33, 137, 11, 66, 42, 76, 106, 239, 61, 50, 140, 4, 42, 229, 26>>>>,
      <<40, 1583,
        <<236, 248, 117, 63, 17, 131, 29, 114, 33, 107, 108, 216, 222, 97, 221, 114,
          0, 140, 154, 251, 82, 201, 7, 8, 52, 89, 180, 71, 150, 204, 49, 228>>>>,
      <<319, 1583,
        <<73, 252, 189, 199, 119, 237, 94, 87, 64, 128, 234, 11, 228, 18, 152, 151,
          198, 209, 150, 242, 88, 38, 254, 40, 211, 74, 181, 59, 93, 6, 202, 49>>>>,
      <<1591, 1,
        <<163, 8, 167, 156, 41, 252, 25, 84, 144, 50, 11, 177, 241, 111, 33, 249,
          111, 255, 172, 19, 70, 113, 194, 151, 241, 205, 138, 144, 152, 75, 250, 202>>>>,
      <<1591, 2,
        <<217, 237, 166, 184, 35, 21, 202, 117, 121, 134, 198, 131, 99, 1, 61, 226,
          215, 71, 40, 97, 109, 118, 166, 179, 189, 78, 137, 24, 166, 239, 220, 113>>>>,
      <<1591, 3,
        <<36, 239, 132, 174, 92, 168, 170, 172, 100, 192, 52, 87, 95, 97, 211, 157,
          4, 104, 35, 22, 164, 32, 143, 118, 74, 133, 107, 0, 202, 23, 152, 109>>>>,
      <<1591, 33,
        <<30, 204, 235, 242, 245, 143, 110, 176, 121, 132, 96, 20, 19, 63, 46, 152,
          108, 67, 5, 67, 187, 247, 60, 125, 241, 27, 230, 146, 94, 31, 94, 108>>>>,
      <<1591, 34,
        <<107, 123, 60, 74, 201, 178, 16, 104, 131, 17, 154, 122, 236, 92, 37, 149,
          105, 137, 60, 58, 17, 99, 49, 26, 216, 139, 74, 166, 125, 121, 203, 237>>>>,
      <<1591, 35,
        <<229, 223, 111, 178, 135, 189, 96, 41, 117, 246, 24, 161, 49, 136, 22, 138,
          126, 206, 18, 33, 50, 42, 48, 192, 42, 160, 200, 229, 190, 46, 99, 140>>>>,
      <<1591, 40,
        <<66, 100, 91, 36, 152, 255, 86, 164, 250, 170, 57, 206, 239, 202, 144, 233,
          154, 75, 201, 174, 198, 83, 194, 123, 29, 98, 29, 178, 91, 250, 116, 181>>>>,
      <<1591, 319,
        <<139, 89, 113, 108, 210, 217, 16, 87, 88, 35, 217, 236, 34, 189, 204, 149,
          93, 73, 38, 40, 212, 202, 32, 34, 79, 182, 224, 21, 16, 158, 103, 61>>>>,
      <<1, 1592,
        <<194, 229, 142, 39, 243, 44, 165, 5, 161, 25, 46, 189, 214, 25, 135, 189,
          188, 38, 191, 165, 164, 69, 192, 69, 143, 21, 217, 197, 200, 240, 10, 239>>>>,
      <<2, 1592,
        <<227, 155, 166, 247, 250, 241, 68, 61, 209, 83, 54, 241, 69, 94, 97, 26,
          90, 104, 124, 26, 71, 79, 116, 212, 40, 112, 61, 36, 69, 28, 138, 74>>>>,
      <<3, 1592,
        <<37, 79, 21, 71, 12, 53, 132, 147, 191, 237, 215, 12, 94, 251, 195, 188,
          42, 188, 205, 61, 127, 45, 123, 144, 159, 65, 42, 58, 93, 138, 203, 108>>>>,
      <<33, 1592,
        <<5, 104, 17, 149, 178, 107, 65, 104, 107, 200, 148, 100, 255, 63, 108, 4,
          138, 94, 157, 100, 39, 80, 156, 171, 19, 10, 212, 229, 84, 228, 12, 12>>>>,
      <<34, 1592,
        <<113, 140, 1, 82, 68, 110, 175, 232, 216, 142, 33, 10, 94, 163, 20, 169,
          227, 119, 121, 47, 132, 223, 96, 42, 92, 54, 158, 222, 1, 65, 8, 80>>>>,
      <<35, 1592,
        <<102, 81, 175, 69, 73, 203, 182, 90, 74, 27, 33, 32, 182, 1, 51, 26,
          110, 98, 15, 170, 35, 157, 92, 163, 47, 215, 187, 44, 174, 114, 155, 159>>>>,
      <<40, 1592,
        <<122, 200, 152, 121, 191, 41, 184, 82, 75, 20, 74, 113, 214, 229, 233, 212,
          209, 162, 62, 117, 169, 108, 135, 100, 40, 238, 44, 16, 124, 202, 5, 76>>>>,
      <<319, 1592,
        <<70, 61, 16, 0, 98, 177, 128, 136, 251, 248, 58, 39, 16, 249, 178, 108,
          126, 42, 190, 240, 117, 47, 99, 48, 21, 240, 162, 188, 57, 87, 11, 239>>>>,
      <<1605, 1,
        <<103, 144, 175, 178, 213, 236, 65, 212, 238, 67, 153, 198, 219, 73, 45, 174,
          185, 214, 83, 177, 207, 244, 122, 22, 90, 103, 10, 99, 247, 57, 164, 75>>>>,
      <<1605, 2,
        <<168, 190, 253, 127, 8, 235, 90, 221, 133, 243, 67, 142, 168, 1, 252, 244,
          87, 165, 95, 203, 135, 43, 228, 125, 1, 167, 8, 36, 251, 212, 12, 205>>>>,
      <<1605, 3,
        <<4, 6, 72, 183, 163, 11, 207, 236, 132, 68, 134, 66, 154, 51, 178, 203,
          197, 28, 41, 182, 207, 98, 28, 158, 30, 146, 240, 242, 133, 160, 232, 207>>>>,
      <<1605, 33,
        <<49, 122, 187, 37, 30, 103, 156, 0, 11, 246, 77, 159, 177, 65, 184, 173,
          187, 57, 41, 75, 185, 239, 203, 85, 79, 76, 12, 47, 29, 101, 211, 101>>>>,
      <<1605, 34,
        <<101, 54, 7, 248, 57, 114, 223, 9, 252, 197, 82, 107, 119, 32, 5, 7,
          84, 110, 154, 106, 93, 174, 196, 32, 141, 245, 255, 80, 30, 58, 155, 214>>>>,
      <<1605, 36,
        <<116, 13, 177, 131, 126, 5, 23, 210, 30, 110, 99, 157, 109, 39, 214, 192,
          170, 189, 157, 46, 192, 182, 40, 215, 41, 84, 200, 143, 202, 122, 251, 210>>>>,
      <<1605, 40,
        <<186, 128, 220, 116, 128, 118, 190, 162, 211, 87, 255, 210, 175, 172, 144, 0,
          203, 161, 227, 203, 63, 122, 53, 1, 230, 99, 235, 108, 79, 47, 8, 22>>>>,
      <<1605, 320,
        <<116, 23, 227, 82, 71, 73, 113, 125, 23, 236, 196, 255, 25, 52, 102, 54,
          32, 225, 82, 114, 184, 228, 5, 126, 63, 45, 255, 112, 228, 170, 184, 124>>>>,
      <<1, 1606,
        <<136, 207, 42, 8, 41, 95, 108, 85, 92, 117, 101, 141, 9, 255, 185, 205,
          140, 18, 236, 143, 134, 247, 94, 203, 114, 170, 61, 53, 28, 80, 159, 82>>>>,
      <<2, 1606,
        <<38, 62, 252, 73, 209, 191, 86, 188, 36, 72, 86, 228, 158, 244, 171, 16,
          150, 97, 78, 202, 26, 99, 61, 161, 108, 196, 104, 165, 45, 50, 47, 248>>>>,
      <<3, 1606,
        <<210, 247, 149, 235, 216, 65, 68, 146, 190, 177, 40, 134, 183, 219, 194, 2,
          44, 96, 115, 163, 41, 210, 65, 49, 207, 192, 18, 126, 237, 141, 50, 9>>>>,
      <<33, 1606,
        <<68, 152, 239, 161, 35, 46, 20, 251, 34, 254, 170, 32, 235, 233, 122, 163,
          64, 188, 58, 197, 250, 113, 66, 158, 67, 34, 184, 10, 80, 11, 86, 62>>>>,
      <<34, 1606,
        <<188, 143, 139, 129, 107, 38, 200, 165, 218, 33, 39, 143, 101, 83, 101, 234,
          70, 132, 172, 215, 204, 29, 179, 47, 82, 196, 215, 31, 195, 22, 196, 118>>>>,
      <<36, 1606,
        <<250, 189, 142, 154, 240, 14, 133, 194, 75, 44, 224, 58, 185, 44, 46, 127,
          129, 61, 253, 246, 167, 150, 61, 51, 139, 23, 195, 80, 122, 96, 34, 76>>>>,
      <<40, 1606,
        <<119, 157, 201, 20, 248, 117, 4, 79, 34, 18, 42, 207, 193, 218, 40, 131,
          245, 169, 20, 64, 7, 151, 175, 206, 139, 156, 180, 54, 148, 237, 171, 184>>>>,
      <<320, 1606,
        <<80, 97, 192, 32, 155, 9, 23, 3, 127, 124, 20, 133, 138, 156, 163, 1,
          196, 83, 8, 107, 229, 4, 72, 95, 52, 157, 199, 48, 246, 222, 160, 44>>>>,
      <<1614, 40,
        <<112, 0, 242, 188, 145, 169, 28, 216, 98, 66, 208, 52, 131, 215, 163, 208,
          194, 95, 241, 152, 2, 210, 67, 0, 202, 149, 223, 22, 202, 28, 232, 148>>>>,
      <<1, 1615,
        <<195, 114, 225, 106, 155, 14, 68, 178, 131, 173, 17, 208, 21, 161, 158, 185,
          148, 236, 91, 193, 109, 17, 15, 185, 217, 173, 155, 251, 231, 120, 241, 72>>>>,
      <<2, 1615,
        <<6, 121, 177, 94, 97, 160, 118, 119, 2, 112, 51, 185, 148, 151, 109, 55,
          90, 255, 0, 65, 18, 79, 36, 153, 10, 229, 164, 250, 75, 195, 139, 184>>>>,
      <<3, 1615,
        <<247, 85, 164, 107, 140, 30, 123, 190, 194, 93, 143, 164, 147, 172, 175, 191,
          121, 0, 22, 91, 109, 214, 101, 72, 223, 34, 43, 18, 155, 191, 248, 230>>>>,
      <<33, 1615,
        <<177, 246, 54, 243, 14, 79, 234, 172, 77, 133, 182, 60, 31, 80, 12, 255,
          104, 179, 108, 75, 201, 43, 74, 105, 180, 39, 244, 140, 227, 17, 160, 125>>>>,
      <<34, 1615,
        <<159, 75, 42, 61, 227, 153, 78, 189, 223, 169, 45, 11, 238, 179, 19, 96,
          186, 60, 27, 0, 252, 51, 176, 97, 38, 137, 219, 153, 19, 158, 5, 236>>>>,
      <<36, 1615,
        <<255, 106, 164, 139, 188, 238, 200, 167, 116, 86, 99, 119, 99, 69, 43, 162,
          134, 22, 101, 2, 70, 77, 59, 36, 7, 185, 105, 72, 244, 87, 93, 93>>>>,
      <<40, 1615,
        <<99, 239, 53, 118, 138, 127, 10, 117, 166, 110, 57, 120, 126, 157, 210, 118,
          47, 106, 211, 55, 176, 24, 122, 220, 168, 192, 196, 127, 221, 56, 187, 106>>>>,
      <<320, 1615,
        <<158, 44, 4, 48, 204, 161, 244, 210, 246, 248, 159, 1, 21, 1, 8, 194,
          171, 147, 47, 36, 174, 188, 147, 106, 44, 135, 39, 71, 252, 35, 203, 7>>>>,
      <<1659, 41,
        <<69, 212, 174, 245, 119, 200, 18, 118, 34, 148, 244, 163, 237, 159, 149, 173,
          175, 108, 221, 118, 168, 32, 109, 83, 104, 231, 166, 132, 92, 209, 47, 14>>>>,
      <<1, 1660,
        <<92, 116, 4, 233, 25, 137, 73, 181, 48, 207, 129, 18, 12, 20, 189, 20,
          45, 227, 198, 3, 163, 113, 118, 62, 84, 127, 40, 100, 30, 141, 114, 252>>>>,
      <<2, 1660,
        <<74, 210, 4, 93, 150, 198, 52, 206, 125, 237, 98, 100, 180, 132, 62, 138,
          133, 223, 253, 218, 202, 239, 132, 9, 33, 28, 188, 34, 117, 247, 165, 126>>>>,
      <<3, 1660,
        <<197, 47, 83, 194, 47, 181, 4, 105, 149, 209, 221, 146, 191, 3, 72, 236,
          130, 2, 176, 180, 69, 126, 186, 63, 88, 238, 190, 63, 88, 68, 237, 165>>>>,
      <<33, 1660,
        <<133, 95, 229, 59, 11, 156, 150, 136, 58, 157, 159, 212, 159, 42, 29, 137,
          121, 184, 19, 122, 189, 211, 192, 179, 16, 184, 148, 0, 62, 205, 198, 120>>>>,
      <<34, 1660,
        <<241, 219, 120, 98, 224, 38, 100, 192, 243, 150, 158, 3, 112, 73, 205, 222,
          187, 109, 116, 22, 239, 83, 160, 165, 254, 10, 43, 57, 193, 190, 52, 208>>>>,
      <<36, 1660,
        <<26, 73, 212, 252, 39, 215, 253, 90, 40, 69, 129, 191, 158, 67, 186, 217,
          121, 219, 132, 155, 178, 133, 99, 71, 13, 103, 172, 242, 182, 165, 249, 90>>>>,
      <<41, 1660,
        <<107, 184, 181, 238, 144, 51, 124, 0, 50, 102, 94, 154, 79, 107, 242, 6,
          124, 235, 48, 232, 246, 195, 52, 55, 6, 123, 249, 165, 78, 236, 80, 115>>>>,
      <<340, 1660,
        <<109, 124, 132, 254, 46, 154, 245, 105, 176, 106, 94, 213, 37, 40, 147, 204,
          38, 241, 69, 71, 154, 59, 38, 67, 222, 211, 143, 50, 106, 177, 67, 51>>>>,
      <<1, 1667,
        <<117, 199, 107, 51, 91, 21, 95, 73, 250, 167, 104, 125, 152, 151, 17, 79,
          178, 94, 51, 62, 52, 141, 240, 48, 219, 81, 159, 244, 231, 149, 213, 168>>>>,
      <<2, 1667,
        <<253, 63, 138, 236, 207, 96, 153, 40, 184, 78, 254, 40, 30, 150, 234, 51,
          0, 199, 91, 9, 168, 224, 160, 219, 45, 75, 73, 72, 250, 189, 127, 0>>>>,
      <<3, 1667,
        <<187, 97, 174, 41, 246, 246, 103, 75, 233, 199, 184, 68, 151, 53, 249, 38,
          158, 123, 248, 81, 123, 78, 40, 61, 104, 91, 51, 2, 117, 165, 49, 36>>>>,
      <<33, 1667,
        <<112, 12, 151, 83, 251, 203, 241, 79, 216, 155, 131, 230, 89, 92, 151, 149,
          18, 231, 182, 245, 112, 211, 90, 108, 171, 240, 66, 250, 136, 5, 177, 51>>>>,
      <<34, 1667,
        <<178, 227, 234, 233, 122, 8, 107, 116, 90, 188, 49, 216, 6, 217, 192, 93,
          70, 50, 251, 141, 29, 61, 247, 74, 205, 42, 68, 111, 160, 3, 141, 226>>>>,
      <<36, 1667,
        <<26, 156, 175, 49, 31, 245, 228, 70, 35, 14, 222, 248, 112, 212, 141, 89,
          53, 69, 22, 206, 172, 57, 169, 224, 178, 246, 227, 249, 248, 255, 241, 17>>>>,
      <<41, 1667,
        <<85, 187, 144, 213, 35, 132, 197, 52, 200, 168, 162, 49, 178, 73, 194, 9,
          146, 164, 7, 209, 133, 166, 115, 184, 172, 120, 118, 80, 67, 136, 106, 111>>>>,
      <<340, 1667,
        <<250, 20, 93, 16, 148, 188, 103, 160, 9, 234, 223, 95, 168, 210, 154, 20,
          255, 138, 122, 183, 139, 34, 36, 186, 135, 191, 210, 198, 42, 106, 35, 70>>>>,
      <<1668, 1,
        <<215, 93, 28, 128, 134, 207, 248, 233, 163, 161, 130, 243, 84, 224, 179, 156,
          235, 185, 196, 227, 103, 200, 53, 153, 186, 186, 114, 204, 75, 68, 121, 46>>>>,
      <<1668, 2,
        <<195, 139, 218, 233, 247, 214, 93, 214, 133, 126, 184, 60, 246, 120, 222, 79,
          110, 54, 216, 59, 54, 135, 213, 207, 155, 86, 63, 117, 190, 87, 122, 127>>>>,
      <<1668, 3,
        <<177, 32, 56, 151, 174, 77, 44, 18, 188, 171, 252, 56, 233, 131, 146, 103,
          179, 71, 141, 135, 74, 113, 236, 205, 149, 44, 183, 215, 122, 22, 132, 155>>>>,
      <<1668, 33,
        <<108, 126, 86, 5, 25, 6, 247, 46, 254, 219, 196, 88, 165, 153, 202, 136,
          8, 29, 106, 55, 147, 125, 16, 55, 220, 13, 198, 216, 241, 239, 179, 161>>>>,
      <<1668, 34,
        <<148, 112, 253, 7, 193, 150, 6, 153, 97, 169, 190, 124, 255, 238, 253, 39,
          50, 184, 68, 142, 123, 19, 81, 171, 86, 51, 180, 185, 64, 172, 95, 245>>>>,
      <<1668, 36,
        <<252, 143, 104, 29, 174, 182, 12, 135, 29, 173, 221, 95, 215, 228, 210, 165,
          93, 157, 101, 128, 211, 254, 39, 111, 226, 2, 120, 53, 198, 16, 128, 195>>>>,
      <<1668, 41,
        <<182, 179, 118, 10, 63, 140, 244, 224, 85, 215, 9, 170, 45, 216, 251, 10,
          145, 154, 108, 95, 141, 181, 193, 22, 222, 238, 145, 50, 175, 193, 231, 65>>>>,
      <<1668, 340,
        <<44, 165, 66, 187, 165, 68, 53, 187, 188, 173, 206, 227, 198, 166, 168, 33,
          176, 242, 15, 100, 215, 106, 171, 229, 57, 196, 111, 109, 223, 192, 106, 211>>>>,
      <<1711, 1,
        <<104, 124, 13, 9, 250, 29, 39, 87, 172, 166, 22, 55, 170, 190, 219, 211,
          75, 248, 182, 173, 159, 94, 19, 250, 157, 108, 72, 39, 213, 111, 165, 181>>>>,
      <<1711, 2,
        <<154, 195, 8, 103, 226, 226, 54, 23, 186, 134, 34, 162, 176, 201, 36, 192,
          6, 250, 72, 227, 3, 175, 142, 81, 22, 126, 229, 90, 145, 4, 109, 221>>>>,
      <<1711, 3,
        <<87, 194, 55, 209, 141, 116, 69, 53, 101, 161, 171, 215, 79, 212, 1, 254,
          108, 2, 90, 254, 44, 43, 66, 101, 124, 148, 144, 168, 54, 204, 7, 110>>>>,
      <<1711, 33,
        <<216, 63, 3, 153, 169, 58, 96, 234, 223, 21, 153, 42, 221, 17, 22, 165,
          29, 255, 66, 107, 148, 167, 218, 14, 102, 119, 253, 180, 92, 31, 62, 167>>>>,
      <<1711, 34,
        <<248, 232, 180, 78, 94, 21, 140, 71, 235, 67, 178, 128, 8, 90, 26, 82,
          248, 96, 129, 47, 174, 18, 151, 188, 224, 243, 88, 51, 124, 199, 249, 16>>>>,
      <<1711, 36,
        <<72, 142, 255, 155, 87, 31, 230, 0, 210, 190, 113, 193, 129, 149, 7, 177,
          171, 206, 32, 12, 162, 127, 16, 90, 54, 140, 100, 64, 143, 87, 70, 168>>>>,
      <<1711, 42,
        <<165, 215, 81, 21, 181, 235, 18, 86, 131, 67, 140, 231, 182, 81, 18, 69,
          136, 44, 75, 238, 6, 82, 79, 37, 125, 229, 249, 70, 143, 186, 207, 17>>>>,
      <<1711, 363,
        <<82, 120, 89, 107, 15, 30, 157, 40, 101, 54, 52, 168, 85, 165, 246, 137,
          200, 49, 181, 227, 56, 190, 70, 207, 29, 198, 165, 248, 187, 143, 122, 117>>>>,
      <<1, 1712,
        <<105, 92, 213, 58, 152, 43, 246, 68, 155, 41, 103, 157, 128, 11, 76, 162,
          223, 252, 14, 97, 72, 201, 103, 143, 132, 247, 31, 64, 68, 140, 28, 84>>>>,
      <<2, 1712,
        <<224, 79, 137, 231, 61, 197, 85, 23, 130, 140, 96, 161, 36, 159, 252, 204,
          241, 54, 201, 206, 179, 134, 190, 94, 161, 58, 38, 98, 148, 217, 155, 119>>>>,
      <<3, 1712,
        <<204, 80, 194, 123, 230, 86, 36, 52, 166, 244, 20, 145, 234, 205, 4, 49,
          50, 147, 178, 207, 19, 77, 174, 79, 41, 198, 48, 103, 119, 84, 5, 162>>>>,
      <<33, 1712,
        <<21, 60, 75, 51, 93, 160, 185, 122, 177, 131, 70, 223, 47, 102, 153, 143,
          51, 207, 99, 50, 90, 185, 247, 28, 78, 230, 116, 158, 235, 207, 159, 84>>>>,
      <<34, 1712,
        <<176, 226, 47, 234, 255, 224, 45, 115, 109, 234, 66, 165, 243, 50, 252, 34,
          64, 24, 216, 58, 85, 124, 120, 20, 111, 9, 45, 30, 253, 112, 132, 2>>>>,
      <<36, 1712,
        <<103, 27, 2, 209, 49, 248, 185, 82, 14, 201, 242, 181, 95, 153, 116, 8,
          43, 99, 34, 71, 243, 219, 101, 80, 203, 55, 224, 63, 255, 140, 222, 218>>>>,
      <<42, 1712,
        <<5, 163, 3, 214, 255, 156, 48, 192, 126, 53, 3, 89, 237, 66, 37, 10,
          252, 162, 225, 108, 205, 69, 55, 45, 156, 41, 80, 48, 136, 21, 187, 3>>>>,
      <<363, 1712,
        <<98, 179, 2, 38, 88, 215, 130, 164, 161, 215, 164, 141, 117, 159, 56, 225,
          99, 57, 238, 57, 174, 253, 179, 103, 7, 149, 150, 223, 132, 9, 106, 209>>>>,
      <<1, 1720,
        <<181, 138, 176, 118, 243, 245, 141, 233, 254, 80, 253, 174, 163, 140, 77, 47,
          7, 88, 20, 235, 33, 237, 165, 188, 186, 122, 224, 97, 255, 33, 82, 129>>>>,
      <<2, 1720,
        <<62, 243, 104, 144, 193, 116, 70, 226, 194, 3, 82, 104, 242, 19, 84, 32,
          8, 135, 174, 156, 87, 195, 118, 2, 232, 86, 240, 130, 0, 143, 44, 58>>>>,
      <<3, 1720,
        <<121, 226, 204, 194, 124, 63, 103, 249, 181, 60, 255, 106, 45, 145, 38, 179,
          20, 243, 41, 193, 109, 63, 23, 172, 116, 24, 89, 207, 104, 105, 171, 67>>>>,
      <<33, 1720,
        <<47, 5, 179, 88, 50, 108, 196, 230, 110, 236, 209, 171, 84, 54, 226, 42,
          148, 73, 79, 63, 56, 169, 202, 245, 202, 141, 155, 193, 82, 168, 179, 65>>>>,
      <<34, 1720,
        <<237, 129, 210, 148, 105, 73, 177, 34, 77, 13, 136, 17, 235, 10, 164, 224,
          168, 105, 202, 238, 253, 128, 41, 148, 96, 146, 219, 198, 235, 204, 95, 195>>>>,
      <<36, 1720,
        <<85, 134, 38, 105, 238, 188, 39, 161, 163, 249, 153, 17, 252, 142, 108, 183,
          80, 229, 241, 196, 34, 243, 2, 122, 71, 95, 215, 56, 123, 156, 0, 44>>>>,
      <<42, 1720,
        <<219, 215, 113, 158, 221, 69, 112, 86, 57, 36, 55, 96, 161, 117, 132, 5,
          66, 9, 242, 34, 230, 75, 223, 218, 129, 166, 96, 194, 41, 244, 246, 147>>>>,
      <<363, 1720,
        <<15, 80, 3, 159, 79, 31, 26, 140, 76, 94, 19, 28, 38, 112, 115, 38,
          137, 23, 250, 88, 110, 177, 118, 60, 139, 125, 153, 228, 100, 172, 104, 222>>>>,
      <<1720, 42,
        <<249, 93, 229, 250, 99, 167, 74, 231, 133, 40, 64, 123, 195, 213, 210, 212,
          4, 15, 191, 115, 61, 92, 86, 212, 75, 194, 35, 51, 249, 31, 174, 252>>>>,
      <<1751, 1,
        <<132, 200, 103, 193, 107, 136, 51, 175, 81, 93, 239, 197, 129, 239, 224, 102,
          212, 208, 118, 64, 179, 48, 100, 170, 207, 186, 125, 235, 57, 240, 89, 235>>>>,
      <<1751, 2,
        <<152, 218, 206, 127, 164, 56, 141, 73, 77, 164, 139, 25, 197, 144, 167, 251,
          196, 156, 130, 168, 218, 254, 162, 30, 155, 10, 7, 39, 125, 32, 22, 140>>>>,
      <<1751, 3,
        <<81, 71, 48, 117, 8, 66, 136, 141, 104, 83, 55, 30, 91, 175, 23, 246,
          153, 172, 52, 71, 26, 243, 27, 48, 144, 183, 187, 245, 229, 48, 93, 96>>>>,
      <<1751, 33,
        <<202, 17, 152, 32, 53, 29, 177, 26, 82, 107, 255, 218, 158, 124, 31, 81,
          150, 150, 205, 178, 8, 20, 164, 153, 158, 6, 247, 151, 1, 71, 141, 152>>>>,
      <<1751, 34,
        <<236, 240, 56, 73, 122, 112, 177, 158, 192, 117, 163, 152, 36, 154, 246, 142,
          248, 107, 182, 174, 76, 46, 125, 202, 36, 234, 206, 152, 11, 138, 145, 127>>>>,
      <<1751, 36,
        <<39, 81, 181, 192, 255, 125, 42, 31, 129, 147, 194, 61, 131, 230, 143, 53,
          186, 77, 237, 157, 37, 118, 75, 194, 238, 18, 192, 254, 6, 141, 138, 71>>>>,
      <<1751, 43,
        <<145, 59, 189, 217, 121, 92, 137, 18, 172, 58, 229, 193, 203, 78, 206, 201,
          161, 244, 94, 4, 202, 155, 120, 236, 87, 33, 77, 100, 74, 147, 26, 168>>>>,
      <<1751, 395,
        <<195, 148, 131, 113, 177, 145, 178, 185, 65, 204, 144, 201, 206, 244, 143, 60,
          19, 139, 10, 211, 105, 181, 203, 72, 212, 75, 137, 132, 153, 168, 157, 8>>>>,
      <<36, 1752,
        <<219, 31, 163, 54, 141, 52, 245, 30, 104, 156, 241, 176, 152, 89, 191, 4,
          53, 72, 132, 176, 241, 38, 12, 119, 34, 199, 168, 229, 8, 11, 212, 208>>>>,
      <<1765, 1,
        <<130, 248, 177, 217, 234, 212, 64, 5, 226, 217, 184, 81, 189, 125, 186, 252,
          193, 5, 30, 185, 134, 153, 43, 80, 190, 160, 11, 115, 60, 186, 45, 203>>>>,
      <<1765, 2,
        <<84, 104, 232, 110, 171, 19, 46, 80, 123, 202, 8, 202, 117, 14, 80, 253,
          11, 68, 4, 82, 53, 232, 168, 254, 91, 59, 92, 128, 195, 143, 225, 130>>>>,
      <<1765, 3,
        <<91, 202, 74, 201, 150, 229, 113, 175, 17, 51, 58, 84, 96, 227, 67, 209,
          200, 33, 103, 206, 63, 207, 246, 118, 165, 162, 58, 183, 2, 187, 227, 34>>>>,
      <<1765, 33,
        <<170, 222, 116, 93, 51, 66, 20, 119, 164, 82, 44, 91, 199, 122, 205, 193,
          233, 156, 59, 138, 81, 53, 144, 231, 103, 195, 5, 195, 26, 28, 9, 157>>>>,
      <<1765, 34,
        <<5, 95, 139, 101, 11, 80, 252, 11, 45, 234, 81, 148, 159, 24, 225, 222,
          252, 237, 135, 71, 42, 5, 152, 151, 202, 176, 2, 115, 93, 161, 232, 203>>>>,
      <<1765, 36,
        <<176, 189, 31, 222, 159, 102, 134, 182, 184, 204, 55, 16, 65, 200, 101, 131,
          178, 197, 56, 116, 160, 80, 33, 51, 193, 92, 249, 73, 96, 152, 54, 72>>>>,
      <<1765, 43,
        <<116, 250, 234, 134, 146, 19, 144, 60, 191, 126, 74, 255, 127, 19, 87, 180,
          181, 68, 64, 168, 56, 157, 191, 93, 33, 241, 181, 158, 104, 44, 245, 112>>>>,
      <<1765, 395,
        <<210, 76, 218, 136, 34, 255, 22, 177, 139, 72, 9, 233, 240, 73, 97, 122,
          71, 104, 97, 0, 37, 28, 71, 46, 217, 250, 134, 220, 31, 210, 171, 185>>>>,
      <<1, 1766,
        <<50, 55, 245, 145, 200, 80, 28, 155, 69, 88, 120, 175, 144, 245, 30, 98,
          83, 183, 92, 254, 96, 92, 179, 244, 26, 181, 0, 150, 206, 222, 213, 38>>>>,
      <<2, 1766,
        <<255, 240, 40, 216, 213, 248, 81, 159, 171, 166, 159, 129, 18, 130, 183, 187,
          215, 105, 91, 247, 71, 126, 237, 129, 81, 119, 228, 203, 221, 15, 156, 176>>>>,
      <<3, 1766,
        <<235, 46, 224, 244, 116, 174, 53, 119, 232, 5, 177, 109, 25, 119, 135, 157,
          178, 82, 237, 93, 228, 191, 205, 120, 45, 167, 4, 221, 168, 125, 154, 210>>>>,
      <<33, 1766,
        <<129, 145, 226, 220, 247, 37, 237, 191, 193, 76, 229, 128, 169, 197, 12, 238,
          39, 142, 161, 202, 193, 33, 62, 62, 32, 13, 67, 45, 155, 45, 71, 42>>>>,
      <<34, 1766,
        <<26, 92, 177, 236, 119, 36, 28, 65, 162, 175, 201, 100, 221, 205, 76, 146,
          243, 8, 209, 131, 89, 171, 172, 70, 35, 167, 195, 236, 25, 47, 160, 26>>>>,
      <<36, 1766,
        <<105, 201, 89, 177, 152, 232, 53, 40, 196, 39, 235, 119, 195, 10, 42, 4,
          238, 5, 124, 223, 203, 248, 43, 228, 200, 127, 21, 4, 154, 80, 132, 221>>>>,
      <<43, 1766,
        <<211, 163, 137, 209, 69, 75, 103, 206, 0, 43, 120, 20, 84, 181, 40, 3,
          171, 250, 138, 202, 4, 80, 177, 87, 9, 122, 19, 79, 252, 230, 179, 86>>>>,
      <<395, 1766,
        <<0, 239, 154, 8, 33, 210, 205, 24, 133, 129, 74, 252, 191, 132, 122, 88,
          149, 43, 0, 101, 24, 79, 254, 103, 235, 199, 201, 145, 197, 176, 168, 130>>>>,
      <<1818, 1,
        <<160, 120, 98, 152, 246, 173, 212, 173, 164, 107, 84, 65, 241, 216, 243, 213,
          74, 156, 208, 5, 36, 36, 132, 61, 79, 210, 0, 29, 178, 55, 82, 130>>>>,
      <<1818, 2,
        <<237, 136, 31, 42, 220, 251, 152, 157, 25, 241, 247, 78, 194, 131, 223, 247,
          95, 112, 132, 93, 207, 157, 228, 139, 50, 108, 69, 152, 53, 241, 114, 60>>>>,
      <<1818, 3,
        <<18, 195, 181, 174, 178, 235, 201, 168, 51, 119, 141, 42, 113, 188, 22, 234,
          85, 244, 254, 140, 236, 195, 239, 132, 81, 152, 21, 14, 24, 23, 129, 15>>>>,
      <<1818, 4,
        <<116, 19, 237, 199, 111, 133, 131, 172, 32, 146, 254, 103, 208, 218, 12, 199,
          72, 101, 190, 96, 66, 3, 137, 214, 253, 10, 10, 124, 176, 197, 128, 18>>>>,
      <<1818, 33,
        <<166, 131, 244, 176, 21, 175, 54, 41, 99, 30, 162, 27, 153, 223, 87, 242,
          243, 77, 16, 204, 22, 17, 199, 187, 85, 158, 211, 187, 245, 73, 230, 160>>>>,
      <<1818, 34,
        <<131, 171, 133, 173, 137, 149, 171, 17, 84, 173, 223, 130, 13, 124, 136, 103,
          252, 48, 227, 98, 73, 146, 30, 120, 193, 117, 235, 6, 187, 87, 92, 68>>>>,
      <<1818, 36,
        <<106, 113, 112, 8, 192, 111, 90, 202, 96, 70, 246, 13, 109, 45, 169, 68,
          185, 213, 92, 14, 182, 147, 85, 208, 17, 242, 58, 88, 20, 231, 218, 167>>>>,
      <<1818, 46,
        <<163, 41, 157, 174, 241, 12, 41, 88, 199, 202, 65, 184, 114, 185, 119, 100,
          6, 176, 150, 252, 94, 8, 94, 70, 179, 89, 179, 226, 226, 5, 34, 34>>>>,
      <<1818, 450,
        <<189, 188, 196, 221, 14, 34, 84, 34, 126, 70, 213, 183, 43, 129, 115, 228,
          176, 32, 114, 133, 52, 51, 93, 74, 189, 35, 154, 154, 107, 141, 11, 65>>>>,
      <<1, 1819,
        <<163, 137, 209, 63, 0, 116, 3, 103, 52, 195, 124, 135, 172, 77, 214, 57,
          185, 205, 54, 106, 103, 40, 140, 207, 22, 134, 63, 215, 163, 55, 16, 49>>>>,
      <<2, 1819,
        <<200, 255, 223, 178, 116, 182, 138, 154, 183, 183, 72, 106, 73, 217, 128, 133,
          10, 219, 51, 21, 91, 252, 149, 247, 189, 5, 120, 196, 100, 116, 78, 222>>>>,
      <<3, 1819,
        <<3, 128, 105, 117, 78, 143, 185, 134, 62, 114, 243, 109, 234, 80, 10, 77,
          224, 138, 136, 38, 243, 178, 27, 43, 80, 146, 232, 89, 1, 32, 219, 231>>>>,
      <<4, 1819,
        <<72, 196, 85, 63, 245, 187, 154, 97, 57, 152, 199, 210, 80, 164, 187, 68,
          234, 207, 210, 25, 29, 242, 122, 211, 140, 77, 127, 208, 39, 208, 1, 221>>>>,
      <<33, 1819,
        <<147, 215, 234, 207, 127, 113, 86, 5, 47, 165, 94, 119, 175, 47, 73, 84,
          198, 160, 39, 44, 40, 204, 111, 38, 72, 187, 145, 194, 163, 141, 30, 22>>>>,
      <<34, 1819,
        <<85, 231, 252, 102, 46, 163, 50, 110, 205, 94, 170, 194, 185, 55, 196, 77,
          5, 76, 169, 133, 55, 187, 242, 45, 185, 53, 17, 187, 71, 255, 131, 218>>>>,
      <<36, 1819,
        <<235, 148, 229, 58, 55, 30, 120, 195, 123, 201, 208, 99, 208, 87, 146, 184,
          50, 154, 208, 174, 128, 23, 143, 36, 104, 91, 7, 197, 23, 161, 62, 42>>>>,
      <<46, 1819,
        <<178, 38, 240, 48, 41, 98, 4, 59, 116, 251, 70, 75, 138, 49, 145, 201,
          82, 105, 142, 49, 117, 68, 149, 73, 15, 53, 181, 69, 51, 254, 28, 156>>>>,
      <<450, 1819,
        <<23, 151, 96, 142, 254, 41, 187, 45, 219, 253, 6, 149, 123, 135, 102, 83,
          16, 22, 82, 188, 187, 223, 96, 59, 198, 193, 209, 220, 70, 248, 48, 149>>>>,
      <<1840, 1,
        <<154, 108, 59, 223, 242, 59, 111, 242, 105, 42, 246, 218, 91, 199, 247, 200,
          55, 61, 197, 15, 203, 10, 64, 141, 74, 248, 221, 155, 249, 153, 255, 166>>>>,
      <<1840, 2,
        <<222, 39, 124, 46, 83, 103, 82, 202, 126, 6, 93, 62, 156, 28, 80, 165,
          212, 45, 158, 165, 12, 151, 99, 3, 128, 140, 72, 27, 51, 192, 66, 57>>>>,
      <<1840, 3,
        <<30, 223, 81, 105, 8, 44, 156, 171, 209, 183, 26, 64, 43, 33, 152, 235,
          157, 180, 19, 24, 115, 63, 10, 59, 177, 236, 19, 46, 244, 92, 140, 78>>>>,
      <<1840, 4,
        <<38, 115, 90, 108, 131, 125, 75, 147, 202, 13, 239, 228, 224, 254, 226, 23,
          86, 2, 146, 216, 150, 203, 158, 205, 43, 31, 24, 236, 182, 80, 9, 211>>>>,
      <<1840, 5,
        <<179, 77, 134, 32, 64, 227, 223, 68, 145, 90, 131, 172, 251, 147, 249, 175,
          11, 179, 38, 236, 93, 173, 232, 127, 142, 97, 34, 116, 222, 163, 92, 143>>>>,
      <<1840, 6,
        <<135, 195, 218, 118, 221, 182, 121, 130, 147, 189, 196, 60, 46, 252, 228, 251,
          109, 6, 222, 133, 235, 87, 253, 124, 157, 60, 174, 216, 224, 117, 186, 193>>>>,
      <<1840, 7,
        <<96, 195, 192, 86, 177, 17, 15, 242, 116, 253, 157, 144, 201, 29, 194, 3,
          146, 55, 227, 55, 242, 59, 40, 128, 0, 102, 228, 212, 193, 187, 206, 153>>>>,
      <<1840, 8,
        <<39, 49, 252, 4, 195, 186, 127, 118, 200, 216, 113, 242, 55, 32, 88, 130,
          234, 20, 143, 200, 200, 28, 5, 6, 59, 118, 44, 10, 57, 211, 5, 172>>>>,
      <<1840, 9,
        <<69, 101, 59, 27, 140, 42, 41, 41, 14, 238, 128, 234, 2, 88, 196, 56,
          39, 174, 133, 60, 238, 15, 51, 63, 91, 253, 161, 90, 89, 94, 225, 26>>>>,
      <<1840, 33,
        <<100, 70, 146, 91, 210, 184, 79, 101, 56, 198, 66, 176, 31, 38, 243, 158,
          130, 152, 246, 96, 96, 87, 136, 58, 32, 197, 208, 222, 155, 0, 121, 131>>>>,
      <<1840, 34,
        <<224, 80, 255, 213, 98, 198, 166, 240, 86, 180, 162, 211, 181, 240, 194, 96,
          20, 58, 126, 70, 209, 69, 9, 96, 246, 101, 184, 209, 233, 161, 226, 157>>>>,
      <<1840, 36,
        <<246, 200, 14, 235, 146, 71, 254, 149, 123, 241, 44, 41, 69, 27, 55, 147,
          73, 201, 240, 8, 142, 214, 152, 211, 239, 80, 62, 186, 248, 54, 198, 207>>>>,
      <<1840, 46,
        <<72, 56, 114, 158, 194, 206, 1, 134, 175, 82, 131, 90, 100, 202, 229, 73,
          143, 200, 118, 254, 157, 182, 24, 99, 27, 217, 172, 92, 120, 194, 110, 187>>>>,
      <<1840, 64,
        <<29, 171, 105, 189, 44, 161, 5, 192, 187, 159, 246, 61, 167, 196, 63, 90,
          1, 205, 150, 98, 219, 144, 40, 160, 226, 43, 1, 70, 212, 114, 50, 13>>>>,
      <<1840, 90,
        <<17, 202, 229, 202, 210, 207, 234, 85, 37, 95, 164, 208, 63, 190, 168, 48,
          34, 123, 216, 54, 161, 200, 138, 230, 199, 0, 67, 44, 12, 218, 75, 193>>>>,
      <<1840, 108,
        <<75, 73, 187, 255, 1, 209, 244, 19, 146, 97, 153, 153, 223, 68, 185, 249,
          21, 135, 137, 167, 2, 111, 133, 81, 220, 83, 119, 214, 248, 180, 84, 237>>>>,
      <<1840, 450,
        <<186, 85, 7, 237, 201, 121, 139, 55, 184, 201, 167, 189, 1, 78, 164, 178,
          178, 191, 181, 69, 197, 107, 83, 236, 121, 222, 68, 5, 221, 67, 43, 242>>>>,
      <<1840, 615,
        <<138, 205, 155, 111, 206, 74, 213, 1, 46, 148, 48, 119, 222, 54, 145, 119,
          235, 146, 70, 25, 184, 198, 211, 56, 33, 247, 159, 61, 77, 30, 116, 213>>>>,
      <<1, 1841,
        <<32, 191, 177, 177, 252, 119, 228, 215, 37, 102, 158, 227, 231, 77, 195, 24,
          200, 182, 210, 45, 40, 14, 192, 74, 200, 224, 119, 1, 13, 1, 89, 177>>>>,
      <<2, 1841,
        <<114, 43, 240, 105, 24, 117, 223, 2, 249, 151, 43, 249, 133, 47, 127, 44,
          33, 184, 207, 5, 48, 150, 56, 224, 251, 161, 222, 163, 5, 26, 175, 19>>>>,
      <<3, 1841,
        <<235, 18, 6, 251, 1, 63, 149, 8, 232, 149, 226, 26, 198, 218, 255, 119,
          106, 30, 6, 234, 27, 75, 14, 254, 7, 246, 183, 150, 213, 116, 138, 166>>>>,
      <<4, 1841,
        <<59, 194, 76, 81, 168, 35, 240, 215, 12, 227, 27, 75, 136, 237, 181, 16,
          95, 149, 183, 172, 230, 179, 140, 125, 230, 62, 98, 214, 145, 73, 251, 68>>>>,
      <<33, 1841,
        <<144, 96, 193, 165, 57, 67, 153, 216, 237, 141, 198, 12, 168, 86, 206, 42,
          53, 210, 221, 13, 71, 189, 49, 60, 213, 177, 119, 140, 15, 105, 72, 102>>>>,
      <<34, 1841,
        <<174, 165, 165, 90, 252, 88, 220, 130, 231, 250, 199, 83, 236, 17, 6, 124,
          55, 164, 30, 75, 192, 225, 35, 158, 173, 172, 23, 102, 244, 66, 3, 34>>>>,
      <<36, 1841,
        <<203, 25, 134, 156, 193, 104, 143, 188, 85, 45, 188, 221, 70, 64, 44, 95,
          116, 227, 29, 233, 102, 143, 176, 121, 133, 39, 5, 152, 12, 160, 136, 224>>>>,
      <<46, 1841,
        <<86, 19, 11, 148, 26, 178, 102, 251, 18, 151, 143, 45, 246, 14, 93, 39,
          212, 22, 222, 96, 202, 65, 82, 1, 41, 181, 69, 46, 234, 20, 184, 105>>>>,
      <<450, 1841,
        <<125, 124, 208, 19, 128, 128, 10, 254, 218, 109, 49, 3, 46, 187, 211, 9,
          241, 160, 70, 0, 41, 110, 182, 65, 3, 33, 162, 70, 147, 79, 181, 208>>>>,
      <<36, 2008,
        <<5, 20, 146, 131, 60, 135, 109, 112, 187, 56, 75, 47, 108, 13, 60, 129,
          182, 121, 128, 210, 89, 124, 133, 28, 253, 162, 192, 13, 187, 26, 119, 46>>>>,
      <<38, 2008,
        <<95, 254, 3, 188, 109, 196, 189, 193, 37, 61, 221, 216, 92, 194, 127, 226,
          157, 146, 56, 75, 239, 191, 242, 201, 140, 237, 41, 251, 141, 66, 87, 100>>>>,
      <<42, 2008,
        <<187, 48, 60, 102, 42, 189, 255, 58, 132, 11, 242, 82, 132, 238, 17, 31,
          187, 52, 236, 48, 102, 245, 208, 53, 97, 155, 6, 124, 66, 62, 43, 214>>>>,
      <<48, 2008,
        <<48, 194, 166, 147, 171, 96, 6, 43, 245, 225, 151, 53, 158, 78, 98, 72,
          173, 223, 101, 174, 19, 162, 77, 101, 99, 150, 145, 203, 158, 223, 30, 127>>>>,
      <<56, 2008,
        <<99, 34, 198, 196, 161, 215, 147, 25, 17, 40, 133, 202, 82, 195, 86, 137,
          119, 225, 162, 28, 126, 135, 187, 36, 1, 117, 113, 237, 183, 191, 114, 209>>>>,
      <<66, 2008,
        <<6, 192, 113, 218, 43, 55, 236, 222, 199, 79, 104, 178, 45, 14, 250, 3,
          185, 123, 221, 191, 155, 101, 169, 125, 21, 67, 52, 155, 162, 126, 6, 29>>>>,
      <<78, 2008,
        <<60, 77, 82, 218, 40, 241, 42, 53, 93, 102, 48, 167, 55, 154, 0, 207,
          113, 229, 182, 5, 109, 140, 73, 239, 33, 190, 155, 167, 91, 199, 185, 168>>>>,
      <<92, 2008,
        <<82, 226, 2, 1, 11, 143, 150, 253, 180, 61, 251, 117, 8, 54, 194, 255,
          61, 65, 205, 205, 208, 56, 80, 248, 17, 124, 70, 161, 99, 244, 145, 137>>>>,
      <<108, 2008,
        <<147, 122, 163, 16, 71, 97, 236, 57, 234, 125, 131, 150, 92, 91, 8, 187,
          200, 210, 252, 122, 81, 92, 174, 40, 169, 229, 249, 39, 186, 153, 17, 15>>>>,
      <<211, 2008,
        <<47, 46, 240, 176, 155, 222, 209, 98, 131, 2, 50, 65, 23, 238, 239, 197,
          138, 71, 98, 82, 98, 156, 38, 216, 109, 230, 158, 110, 159, 205, 49, 167>>>>,
      <<218, 2008,
        <<54, 138, 136, 167, 116, 20, 179, 59, 124, 173, 230, 211, 140, 22, 89, 64,
          52, 203, 139, 192, 118, 132, 11, 198, 219, 224, 219, 118, 214, 64, 147, 137>>>>,
      <<240, 2008,
        <<211, 221, 77, 13, 229, 3, 110, 199, 204, 105, 226, 4, 34, 89, 214, 2,
          46, 95, 165, 252, 110, 196, 196, 137, 109, 46, 2, 4, 71, 72, 105, 211>>>>,
      <<457, 2008,
        <<201, 128, 7, 92, 37, 93, 200, 141, 76, 82, 26, 189, 240, 194, 121, 91,
          220, 61, 199, 210, 240, 204, 241, 253, 29, 231, 169, 128, 11, 53, 154, 30>>>>,
      <<551, 2008,
        <<9, 49, 215, 33, 163, 34, 249, 200, 130, 7, 3, 89, 73, 237, 108, 123,
          131, 180, 191, 243, 1, 23, 204, 183, 189, 106, 127, 213, 105, 242, 128, 224>>>>,
      <<618, 2008,
        <<223, 209, 35, 73, 121, 114, 124, 90, 162, 215, 180, 218, 249, 202, 79, 90,
          75, 161, 205, 190, 170, 157, 13, 74, 70, 153, 229, 200, 11, 198, 105, 76>>>>,
      <<648, 2008,
        <<158, 99, 234, 157, 202, 201, 201, 157, 4, 208, 26, 235, 92, 55, 91, 22,
          236, 157, 38, 132, 193, 150, 80, 222, 198, 116, 210, 105, 85, 66, 35, 176>>>>,
      <<1840, 2008,
        <<93, 192, 235, 136, 14, 222, 72, 149, 253, 122, 37, 136, 223, 41, 113, 239,
          68, 120, 250, 164, 51, 76, 13, 113, 91, 10, 180, 232, 249, 138, 69, 9>>>>,
      <<2008, 2,
        <<103, 129, 200, 102, 239, 165, 5, 67, 238, 103, 130, 70, 227, 131, 135, 48,
          46, 177, 191, 230, 212, 5, 107, 124, 228, 4, 225, 4, 23, 197, 133, 234>>>>,
      <<2011, 1,
        <<100, 32, 177, 74, 223, 71, 230, 122, 22, 240, 223, 251, 213, 62, 0, 216,
          44, 251, 13, 110, 135, 107, 54, 172, 182, 105, 199, 152, 251, 235, 73, 58>>>>,
      <<2011, 2,
        <<8, 0, 114, 74, 172, 117, 182, 195, 212, 214, 103, 250, 49, 188, 35, 141,
          59, 188, 231, 41, 105, 32, 180, 214, 89, 96, 91, 127, 47, 238, 46, 187>>>>,
      <<2011, 3,
        <<47, 28, 238, 240, 20, 6, 39, 167, 183, 136, 20, 86, 152, 219, 213, 129,
          42, 42, 245, 162, 121, 158, 118, 33, 138, 201, 87, 243, 247, 112, 244, 222>>>>,
      <<2011, 4,
        <<255, 236, 55, 22, 137, 141, 94, 236, 5, 23, 246, 134, 130, 27, 154, 160,
          105, 143, 52, 45, 216, 164, 103, 205, 251, 202, 122, 50, 216, 140, 49, 193>>>>,
      <<2011, 5,
        <<234, 94, 23, 161, 3, 237, 18, 159, 214, 192, 95, 235, 94, 191, 189, 173,
          250, 24, 247, 26, 173, 96, 55, 44, 151, 75, 249, 21, 60, 247, 161, 236>>>>,
      <<2011, 6,
        <<97, 105, 210, 108, 104, 7, 193, 156, 175, 182, 137, 145, 60, 161, 222, 186,
          103, 77, 159, 113, 88, 80, 120, 233, 174, 210, 37, 183, 141, 236, 104, 206>>>>,
      <<2011, 7,
        <<173, 134, 87, 203, 89, 131, 81, 28, 22, 235, 57, 218, 49, 47, 45, 32,
          15, 41, 172, 24, 4, 29, 76, 132, 6, 78, 118, 86, 237, 198, 134, 38>>>>,
      <<2011, 8,
        <<71, 28, 93, 134, 53, 26, 211, 150, 206, 252, 177, 63, 107, 6, 151, 108,
          168, 213, 183, 200, 176, 128, 166, 228, 230, 37, 222, 71, 44, 25, 193, 174>>>>,
      <<2011, 9,
        <<62, 17, 207, 78, 121, 180, 133, 53, 137, 10, 109, 202, 243, 20, 184, 94,
          4, 90, 142, 232, 186, 152, 52, 198, 124, 158, 92, 245, 144, 177, 221, 130>>>>,
      <<2011, 33,
        <<190, 191, 103, 91, 20, 158, 117, 242, 95, 235, 118, 100, 62, 82, 191, 21,
          219, 148, 18, 84, 137, 94, 39, 70, 219, 166, 8, 26, 79, 168, 23, 107>>>>,
      <<2011, 34,
        <<51, 7, 13, 240, 6, 43, 247, 67, 204, 88, 212, 169, 40, 190, 91, 73,
          157, 250, 92, 206, 10, 109, 186, 44, 13, 183, 22, 112, 17, 146, 120, 249>>>>,
      <<2011, 36,
        <<250, 20, 128, 209, 169, 242, 43, 130, 255, 29, 97, 60, 176, 220, 151, 131,
          217, 13, 146, 188, 92, 27, 222, 207, 43, 9, 67, 104, 200, 230, 248, 79>>>>,
      <<2011, 46,
        <<173, 154, 4, 92, 226, 156, 96, 74, 64, 48, 35, 245, 171, 239, 46, 193,
          144, 83, 56, 208, 50, 191, 148, 83, 210, 255, 184, 21, 183, 110, 24, 136>>>>,
      <<2011, 64,
        <<56, 214, 40, 142, 14, 172, 39, 241, 35, 125, 162, 62, 167, 28, 225, 145,
          12, 13, 43, 211, 94, 204, 100, 39, 27, 49, 183, 25, 151, 243, 40, 35>>>>,
      <<2011, 90,
        <<253, 162, 253, 33, 237, 62, 37, 169, 164, 252, 4, 88, 114, 182, 102, 113,
          245, 214, 243, 82, 55, 41, 42, 251, 255, 38, 128, 196, 24, 3, 118, 171>>>>,
      <<2011, 108,
        <<71, 206, 91, 106, 202, 43, 173, 66, 78, 174, 74, 30, 75, 75, 252, 141,
          198, 186, 146, 58, 182, 26, 223, 80, 168, 101, 49, 172, 107, 164, 7, 149>>>>,
      <<2011, 450,
        <<78, 118, 54, 49, 41, 40, 172, 150, 254, 185, 83, 179, 89, 180, 187, 22,
          149, 212, 171, 44, 113, 187, 124, 114, 238, 131, 88, 227, 190, 92, 173, 190>>>>,
      <<2011, 615,
        <<221, 93, 220, 228, 34, 1, 243, 49, 243, 245, 31, 219, 112, 148, 144, 76,
          136, 188, 126, 169, 156, 216, 127, 181, 218, 240, 103, 174, 184, 218, 99, 204>>>>,
      <<2011, 2008,
        <<71, 210, 140, 162, 254, 187, 166, 137, 230, 228, 100, 177, 94, 21, 187, 151,
          76, 185, 114, 198, 27, 104, 79, 37, 30, 210, 4, 89, 85, 135, 172, 51>>>>,
      <<1046, 2059,
        <<223, 227, 148, 240, 78, 174, 255, 91, 84, 195, 196, 50, 255, 77, 70, 204,
          246, 253, 236, 160, 14, 59, 1, 178, 187, 150, 138, 37, 56, 114, 2, 8>>>>,
      <<1523, 2060,
        <<73, 184, 199, 240, 244, 109, 43, 4, 98, 15, 175, 108, 153, 244, 226, 217,
          250, 34, 245, 122, 195, 152, 130, 134, 169, 125, 101, 0, 10, 5, 32, 88>>>>,
      <<1524, 2060,
        <<81, 172, 170, 162, 79, 195, 174, 164, 33, 36, 80, 151, 100, 242, 133, 183,
          65, 79, 228, 253, 142, 254, 253, 131, 160, 235, 183, 107, 53, 182, 178, 205>>>>,
      <<1525, 2060,
        <<124, 59, 100, 123, 149, 114, 95, 39, 119, 135, 146, 173, 255, 253, 225, 190,
          148, 219, 42, 89, 153, 88, 74, 132, 5, 24, 247, 229, 116, 164, 253, 215>>>>,
      <<1532, 2060,
        <<169, 69, 219, 235, 169, 123, 79, 127, 77, 1, 51, 157, 97, 82, 208, 53,
          158, 190, 97, 169, 43, 239, 169, 62, 179, 158, 77, 155, 136, 38, 71, 199>>>>,
      <<1548, 2060,
        <<188, 147, 204, 59, 180, 219, 33, 52, 164, 106, 36, 106, 125, 171, 232, 92,
          187, 220, 128, 43, 64, 71, 5, 66, 177, 218, 225, 24, 101, 64, 143, 138>>>>,
      <<1590, 2060,
        <<152, 37, 48, 209, 148, 205, 90, 86, 191, 217, 247, 41, 226, 120, 39, 74,
          242, 135, 41, 180, 57, 127, 46, 217, 255, 25, 247, 37, 6, 147, 71, 9>>>>,
      <<2061, 1742,
        <<227, 160, 187, 35, 237, 21, 250, 144, 100, 19, 9, 88, 44, 162, 194, 2,
          83, 169, 30, 247, 210, 114, 41, 239, 254, 196, 37, 45, 180, 169, 5, 203>>>>,
      <<1789, 2063,
        <<3, 211, 140, 102, 26, 82, 47, 199, 68, 69, 6, 53, 7, 211, 240, 233,
          141, 130, 164, 43, 185, 70, 131, 35, 205, 192, 223, 43, 132, 30, 101, 240>>>>,
      <<1790, 2063,
        <<77, 110, 43, 117, 164, 81, 37, 175, 104, 153, 61, 27, 250, 81, 216, 88,
          182, 129, 66, 177, 162, 123, 48, 238, 28, 249, 167, 29, 14, 79, 95, 185>>>>,
      <<1791, 2063,
        <<183, 89, 61, 147, 79, 110, 233, 11, 146, 176, 43, 126, 40, 217, 149, 172,
          87, 8, 233, 105, 36, 72, 144, 97, 233, 255, 49, 132, 74, 123, 52, 19>>>>,
      <<1792, 2063,
        <<132, 159, 2, 223, 136, 145, 89, 220, 81, 73, 140, 214, 79, 42, 38, 229,
          88, 208, 237, 96, 49, 42, 195, 179, 150, 115, 11, 230, 167, 186, 188, 129>>>>,
      <<1793, 2063,
        <<1, 163, 69, 188, 157, 188, 168, 191, 26, 137, 58, 168, 3, 253, 174, 34,
          70, 239, 227, 170, 195, 83, 138, 142, 15, 183, 241, 30, 126, 42, 194, 109>>>>,
      <<1794, 2063,
        <<59, 208, 70, 36, 5, 240, 140, 76, 169, 100, 57, 123, 87, 86, 230, 64,
          146, 152, 16, 180, 171, 74, 192, 147, 119, 71, 32, 100, 130, 136, 204, 102>>>>,
      <<1795, 2063,
        <<86, 37, 213, 9, 213, 34, 233, 184, 108, 59, 45, 22, 249, 185, 68, 124,
          220, 99, 58, 30, 207, 48, 69, 48, 223, 47, 168, 140, 12, 109, 187, 172>>>>,
      <<1796, 2063,
        <<60, 212, 81, 168, 33, 106, 169, 140, 219, 20, 74, 6, 63, 185, 9, 63,
          71, 152, 52, 4, 11, 119, 188, 2, 13, 199, 199, 88, 238, 33, 191, 3>>>>,
      <<1797, 2063,
        <<185, 68, 247, 38, 18, 178, 170, 56, 203, 169, 19, 41, 95, 194, 15, 128,
          132, 209, 100, 189, 234, 108, 188, 169, 107, 213, 118, 106, 43, 225, 103, 72>>>>,
      <<1798, 2063,
        <<152, 110, 143, 33, 93, 75, 134, 98, 30, 236, 241, 77, 255, 239, 129, 128,
          94, 6, 107, 100, 136, 228, 58, 163, 149, 231, 39, 102, 146, 208, 149, 54>>>>,
      <<1815, 2063,
        <<148, 6, 134, 80, 232, 244, 255, 49, 108, 220, 29, 110, 170, 227, 175, 79,
          50, 154, 55, 12, 203, 12, 1, 10, 71, 117, 241, 28, 51, 130, 219, 16>>>>,
      <<1816, 2063,
        <<100, 179, 251, 54, 15, 82, 217, 249, 253, 164, 228, 93, 101, 252, 171, 152,
          246, 29, 171, 142, 176, 42, 136, 188, 68, 174, 105, 212, 86, 247, 50, 218>>>>,
      <<1817, 2063,
        <<231, 67, 152, 29, 113, 85, 133, 46, 30, 185, 149, 199, 126, 93, 217, 22,
          144, 159, 69, 91, 158, 84, 160, 49, 188, 94, 72, 88, 46, 193, 102, 79>>>>,
      <<1836, 2063,
        <<10, 34, 112, 142, 89, 66, 255, 22, 194, 227, 6, 101, 240, 186, 143, 136,
          146, 39, 9, 234, 208, 218, 55, 247, 128, 199, 102, 160, 219, 115, 98, 0>>>>,
      <<1857, 2063,
        <<160, 253, 182, 187, 99, 94, 25, 167, 101, 88, 232, 38, 208, 204, 25, 215,
          28, 14, 154, 218, 8, 148, 254, 197, 163, 74, 43, 65, 243, 146, 178, 135>>>>,
      <<2064, 1884,
        <<43, 118, 54, 241, 78, 42, 201, 128, 236, 67, 133, 203, 147, 35, 150, 37,
          24, 108, 31, 248, 57, 141, 204, 1, 54, 94, 48, 86, 54, 68, 227, 250>>>>,
      <<2064, 1885,
        <<135, 26, 238, 136, 84, 140, 137, 6, 179, 59, 205, 222, 249, 162, 19, 180,
          243, 188, 22, 206, 12, 123, 217, 42, 248, 105, 181, 245, 227, 176, 218, 132>>>>,
      <<2064, 1886,
        <<175, 96, 42, 141, 27, 51, 12, 254, 237, 251, 211, 129, 253, 92, 24, 38,
          40, 34, 55, 205, 91, 169, 6, 197, 181, 176, 17, 91, 204, 132, 203, 41>>>>,
      <<2064, 1887,
        <<196, 179, 240, 96, 130, 170, 139, 38, 202, 96, 209, 186, 171, 214, 242, 74,
          232, 250, 14, 43, 6, 232, 12, 50, 36, 123, 251, 171, 18, 225, 227, 254>>>>,
      <<2064, 1888,
        <<80, 3, 228, 101, 26, 60, 156, 35, 6, 230, 66, 232, 5, 9, 46, 234,
          78, 77, 231, 191, 38, 14, 117, 204, 196, 225, 94, 201, 172, 205, 186, 151>>>>,
      <<1889, 2065,
        <<13, 97, 131, 255, 78, 120, 60, 63, 160, 252, 99, 98, 190, 236, 174, 119,
          160, 175, 2, 19, 233, 194, 21, 198, 37, 185, 62, 220, 11, 8, 145, 85>>>>,
      <<1890, 2065,
        <<240, 172, 250, 62, 40, 39, 195, 149, 96, 94, 199, 48, 165, 147, 208, 107,
          194, 49, 218, 16, 147, 2, 195, 161, 157, 46, 183, 83, 73, 10, 180, 209>>>>,
      <<1891, 2065,
        <<160, 8, 28, 133, 235, 10, 40, 170, 67, 9, 112, 4, 172, 88, 139, 134,
          237, 18, 106, 47, 66, 78, 244, 38, 73, 218, 118, 146, 108, 205, 75, 56>>>>,
      <<1892, 2065,
        <<122, 130, 98, 70, 102, 162, 18, 119, 117, 0, 173, 168, 206, 250, 165, 172,
          65, 72, 209, 94, 229, 169, 10, 165, 1, 43, 134, 254, 47, 158, 119, 101>>>>,
      <<1893, 2065,
        <<219, 122, 87, 147, 74, 16, 112, 77, 160, 153, 225, 183, 249, 202, 117, 20,
          27, 55, 53, 109, 119, 17, 142, 166, 190, 165, 141, 141, 66, 95, 32, 185>>>>,
      <<1894, 2065,
        <<184, 210, 102, 72, 193, 161, 36, 245, 235, 159, 10, 201, 137, 28, 194, 51,
          46, 62, 62, 254, 24, 136, 204, 251, 21, 182, 156, 132, 202, 209, 101, 248>>>>,
      <<1895, 2065,
        <<213, 41, 239, 21, 132, 84, 145, 127, 69, 230, 219, 169, 221, 201, 206, 234,
          137, 98, 208, 242, 243, 28, 7, 121, 118, 181, 134, 61, 233, 129, 1, 146>>>>,
      <<1896, 2065,
        <<190, 88, 25, 93, 119, 216, 209, 69, 169, 100, 104, 86, 220, 122, 174, 117,
          229, 1, 229, 131, 163, 62, 137, 202, 52, 35, 246, 234, 152, 208, 251, 54>>>>,
      <<1897, 2065,
        <<127, 14, 243, 80, 227, 149, 239, 228, 41, 1, 228, 132, 226, 242, 157, 145,
          78, 111, 111, 160, 190, 248, 70, 138, 220, 47, 230, 26, 191, 244, 68, 189>>>>,
      <<1898, 2065,
        <<201, 65, 117, 34, 25, 61, 194, 91, 101, 65, 216, 5, 122, 8, 248, 65,
          71, 84, 70, 60, 103, 247, 40, 52, 232, 139, 36, 104, 85, 63, 220, 4>>>>,
      <<1899, 2065,
        <<45, 142, 73, 80, 253, 79, 166, 76, 209, 191, 28, 167, 81, 57, 42, 242,
          213, 156, 169, 164, 15, 106, 186, 195, 251, 147, 254, 122, 226, 99, 17, 242>>>>,
      <<1900, 2065,
        <<122, 47, 42, 189, 89, 105, 0, 164, 35, 125, 113, 194, 144, 17, 229, 156,
          125, 76, 133, 121, 189, 134, 56, 247, 140, 97, 23, 78, 220, 151, 161, 242>>>>,
      <<1901, 2065,
        <<155, 196, 159, 67, 92, 74, 251, 223, 42, 28, 206, 97, 83, 141, 38, 177,
          205, 128, 45, 216, 15, 191, 117, 81, 99, 22, 25, 164, 77, 35, 234, 243>>>>,
      <<1902, 2065,
        <<169, 22, 82, 141, 8, 176, 165, 178, 238, 216, 37, 188, 205, 24, 166, 133,
          38, 216, 186, 229, 122, 18, 225, 198, 244, 124, 194, 72, 234, 225, 77, 227>>>>,
      <<1903, 2065,
        <<247, 123, 218, 77, 3, 185, 160, 70, 111, 194, 45, 80, 202, 71, 14, 48,
          175, 225, 53, 117, 37, 101, 232, 0, 3, 80, 189, 50, 48, 89, 87, 220>>>>,
      <<1904, 2065,
        <<100, 85, 221, 94, 15, 138, 247, 116, 25, 214, 233, 33, 72, 39, 120, 17,
          251, 18, 200, 140, 175, 234, 7, 73, 215, 75, 155, 190, 38, 120, 28, 25>>>>,
      <<1905, 2065,
        <<106, 81, 198, 209, 105, 138, 79, 5, 72, 58, 153, 190, 131, 188, 153, 147,
          77, 130, 206, 107, 170, 28, 200, 43, 102, 40, 185, 43, 204, 99, 107, 67>>>>,
      <<1906, 2065,
        <<233, 238, 139, 173, 90, 38, 99, 118, 77, 115, 216, 15, 233, 35, 237, 135,
          246, 111, 160, 159, 72, 192, 33, 136, 159, 171, 47, 220, 5, 223, 178, 221>>>>,
      <<1907, 2065,
        <<195, 72, 76, 103, 48, 209, 184, 231, 114, 107, 162, 58, 5, 98, 71, 248,
          126, 12, 205, 19, 133, 189, 15, 248, 226, 157, 224, 19, 124, 96, 29, 237>>>>,
      <<1908, 2065,
        <<66, 143, 73, 87, 140, 17, 78, 95, 247, 140, 230, 48, 131, 157, 196, 10,
          8, 217, 95, 2, 220, 83, 78, 33, 50, 3, 64, 84, 211, 154, 252, 185>>>>,
      <<2066, 1910,
        <<36, 201, 28, 177, 120, 24, 120, 121, 53, 198, 75, 141, 245, 139, 220, 69,
          100, 59, 24, 140, 81, 91, 94, 97, 90, 114, 190, 143, 194, 229, 201, 33>>>>,
      <<2066, 1911,
        <<240, 138, 107, 174, 252, 255, 197, 241, 248, 184, 227, 174, 250, 216, 191, 94,
          41, 88, 240, 43, 167, 233, 65, 178, 123, 233, 224, 198, 16, 172, 214, 62>>>>,
      <<2066, 1912,
        <<251, 166, 11, 100, 30, 156, 133, 69, 6, 249, 136, 114, 18, 175, 111, 95,
          128, 30, 181, 183, 44, 54, 146, 10, 204, 225, 221, 230, 15, 87, 216, 37>>>>,
      <<2066, 1913,
        <<107, 18, 105, 130, 56, 59, 235, 57, 148, 113, 121, 71, 108, 128, 24, 152,
          107, 95, 12, 78, 181, 0, 206, 82, 42, 48, 92, 64, 219, 51, 55, 158>>>>,
      <<2066, 1914,
        <<13, 217, 191, 37, 106, 18, 16, 83, 134, 100, 97, 228, 136, 112, 255, 242,
          9, 10, 162, 84, 33, 33, 225, 168, 85, 77, 98, 223, 180, 23, 191, 148>>>>,
      <<2066, 1915,
        <<224, 203, 169, 182, 77, 177, 215, 208, 88, 255, 196, 181, 233, 3, 57, 69,
          96, 105, 240, 71, 106, 236, 216, 181, 17, 4, 171, 226, 108, 86, 130, 226>>>>,
      <<2066, 1916,
        <<210, 130, 43, 172, 137, 198, 154, 182, 157, 103, 164, 70, 6, 103, 46, 61,
          178, 3, 229, 146, 252, 142, 220, 48, 164, 172, 199, 108, 97, 182, 123, 206>>>>,
      <<2066, 1917,
        <<2, 70, 209, 219, 113, 25, 84, 41, 86, 133, 222, 118, 90, 168, 115, 66,
          84, 17, 47, 80, 255, 212, 181, 36, 32, 64, 30, 156, 252, 171, 49, 54>>>>,
      <<2066, 1918,
        <<108, 113, 163, 148, 9, 149, 236, 166, 174, 155, 78, 5, 205, 86, 225, 134,
          50, 29, 183, 120, 53, 140, 60, 159, 221, 99, 13, 80, 136, 128, 98, 168>>>>,
      <<2066, 1919,
        <<225, 74, 245, 127, 104, 60, 68, 241, 123, 151, 75, 249, 26, 140, 126, 11,
          110, 183, 247, 100, 68, 242, 193, 160, 42, 187, 89, 251, 61, 253, 37, 125>>>>,
      <<1920, 2067,
        <<237, 27, 21, 13, 96, 82, 210, 253, 177, 67, 161, 77, 144, 206, 253, 236,
          220, 13, 188, 107, 108, 254, 44, 181, 140, 160, 250, 142, 171, 60, 65, 63>>>>,
      <<1921, 2067,
        <<202, 231, 233, 128, 163, 69, 17, 54, 36, 4, 168, 238, 55, 238, 180, 223,
          186, 169, 171, 174, 153, 189, 27, 161, 149, 120, 26, 232, 159, 220, 194, 77>>>>,
      <<1922, 2067,
        <<18, 174, 69, 68, 189, 168, 236, 144, 247, 137, 202, 174, 78, 122, 22, 106,
          31, 125, 140, 47, 99, 156, 207, 246, 116, 143, 192, 74, 21, 8, 226, 220>>>>,
      <<1923, 2067,
        <<213, 36, 23, 28, 118, 30, 5, 131, 47, 106, 198, 53, 195, 139, 182, 74,
          101, 81, 87, 114, 251, 112, 67, 177, 206, 157, 81, 130, 75, 69, 1, 167>>>>,
      <<1924, 2067,
        <<40, 61, 24, 81, 237, 223, 28, 28, 52, 166, 254, 227, 226, 114, 60, 177,
          50, 200, 23, 151, 20, 213, 204, 146, 186, 42, 247, 23, 214, 95, 161, 103>>>>,
      <<1925, 2067,
        <<195, 12, 200, 125, 113, 113, 194, 87, 118, 55, 26, 69, 238, 148, 215, 191,
          254, 185, 45, 57, 15, 41, 5, 184, 77, 63, 210, 43, 81, 57, 177, 198>>>>,
      <<1926, 2067,
        <<36, 209, 167, 164, 138, 242, 73, 224, 202, 211, 125, 77, 6, 10, 216, 22,
          84, 175, 115, 246, 21, 197, 233, 240, 229, 178, 141, 201, 8, 124, 141, 107>>>>,
      <<1927, 2067,
        <<92, 208, 192, 138, 181, 241, 104, 135, 27, 46, 172, 174, 64, 19, 205, 20,
          168, 90, 26, 87, 252, 6, 87, 54, 170, 225, 123, 160, 230, 249, 214, 70>>>>,
      <<1928, 2067,
        <<35, 170, 198, 103, 164, 174, 6, 220, 124, 227, 216, 218, 150, 19, 196, 175,
          218, 245, 45, 180, 69, 199, 23, 204, 227, 219, 135, 44, 21, 78, 97, 36>>>>,
      <<1929, 2067,
        <<233, 10, 18, 146, 71, 179, 215, 158, 46, 206, 214, 120, 87, 162, 44, 78,
          23, 44, 109, 236, 149, 71, 12, 193, 133, 64, 157, 64, 82, 71, 84, 249>>>>,
      <<1930, 2067,
        <<64, 91, 30, 216, 250, 161, 15, 59, 138, 104, 187, 102, 214, 2, 57, 197,
          31, 159, 78, 146, 195, 227, 197, 143, 227, 167, 67, 37, 70, 175, 77, 42>>>>,
      <<1931, 2067,
        <<154, 240, 18, 223, 193, 53, 213, 23, 49, 115, 94, 44, 104, 51, 44, 188,
          73, 71, 231, 203, 230, 19, 237, 150, 162, 206, 149, 189, 114, 50, 109, 228>>>>,
      <<1932, 2067,
        <<254, 249, 212, 194, 231, 143, 14, 74, 26, 4, 75, 85, 47, 157, 181, 232,
          54, 122, 24, 224, 246, 255, 145, 74, 255, 19, 125, 244, 170, 171, 239, 105>>>>,
      <<1933, 2067,
        <<236, 215, 119, 8, 92, 173, 202, 175, 33, 188, 180, 241, 82, 197, 190, 88,
          140, 149, 111, 228, 113, 172, 77, 142, 246, 189, 27, 108, 218, 150, 119, 189>>>>,
      <<1934, 2067,
        <<43, 163, 19, 61, 4, 70, 215, 126, 62, 89, 56, 254, 62, 194, 197, 206,
          242, 228, 204, 77, 106, 113, 92, 168, 108, 69, 192, 217, 77, 81, 248, 202>>>>,
      <<2068, 1953,
        <<163, 238, 98, 153, 57, 46, 64, 194, 244, 53, 33, 226, 164, 199, 218, 15,
          105, 20, 217, 121, 181, 10, 82, 221, 30, 175, 98, 149, 157, 245, 46, 108>>>>,
      <<2068, 1954,
        <<22, 105, 9, 215, 188, 218, 54, 65, 11, 79, 199, 87, 175, 73, 65, 44,
          50, 49, 186, 231, 219, 86, 42, 34, 8, 217, 117, 138, 197, 130, 16, 157>>>>,
      <<2068, 1955,
        <<40, 91, 73, 172, 140, 108, 149, 123, 213, 133, 214, 166, 233, 109, 54, 204,
          106, 73, 55, 238, 47, 161, 196, 131, 29, 34, 117, 151, 3, 230, 148, 185>>>>,
      <<2068, 1956,
        <<234, 132, 81, 240, 225, 144, 101, 137, 158, 186, 232, 97, 79, 221, 10, 185,
          225, 239, 19, 28, 210, 19, 143, 47, 54, 211, 223, 91, 21, 53, 158, 0>>>>,
      <<2068, 1957,
        <<31, 231, 216, 107, 73, 145, 1, 125, 127, 66, 22, 99, 26, 125, 2, 185,
          201, 56, 108, 140, 101, 244, 178, 194, 196, 28, 220, 0, 25, 46, 89, 124>>>>,
      <<2068, 1958,
        <<153, 68, 138, 47, 26, 108, 215, 199, 229, 17, 150, 145, 42, 115, 7, 174,
          47, 175, 69, 189, 246, 147, 160, 184, 205, 136, 212, 81, 184, 23, 0, 109>>>>,
      <<2068, 1959,
        <<251, 130, 54, 77, 143, 203, 240, 217, 217, 76, 169, 155, 48, 194, 214, 178,
          174, 247, 231, 138, 98, 120, 200, 84, 59, 229, 234, 4, 28, 117, 193, 75>>>>,
      <<2068, 1960,
        <<240, 41, 181, 109, 84, 102, 181, 209, 124, 80, 25, 113, 160, 160, 244, 169,
          177, 233, 53, 142, 0, 104, 154, 7, 224, 80, 176, 227, 215, 19, 128, 176>>>>,
      <<2068, 1961,
        <<45, 226, 238, 83, 150, 51, 57, 17, 154, 59, 152, 166, 251, 129, 50, 65,
          237, 99, 88, 49, 76, 158, 180, 222, 207, 29, 28, 58, 64, 174, 127, 15>>>>,
      <<2068, 1962,
        <<236, 90, 2, 73, 231, 202, 225, 116, 121, 169, 100, 240, 136, 29, 100, 167,
          62, 220, 66, 175, 81, 41, 61, 189, 138, 48, 171, 137, 55, 114, 65, 40>>>>,
      <<1963, 2069,
        <<130, 212, 105, 231, 151, 49, 205, 66, 173, 13, 42, 207, 191, 30, 79, 212,
          24, 52, 147, 253, 61, 20, 0, 36, 127, 251, 176, 93, 200, 136, 234, 121>>>>,
      <<1968, 2069,
        <<209, 88, 148, 86, 249, 180, 251, 6, 82, 194, 124, 125, 233, 72, 7, 236,
          224, 11, 66, 244, 165, 23, 212, 247, 228, 221, 103, 241, 122, 243, 61, 195>>>>,
      <<1971, 2069,
        <<255, 123, 93, 208, 60, 220, 19, 215, 151, 251, 168, 234, 152, 89, 33, 95,
          92, 154, 182, 69, 51, 236, 24, 218, 189, 174, 109, 195, 172, 169, 112, 23>>>>,
      <<1972, 2069,
        <<72, 182, 35, 174, 172, 176, 235, 67, 139, 13, 96, 192, 88, 56, 227, 7,
          135, 146, 60, 10, 212, 20, 113, 140, 55, 139, 243, 24, 251, 67, 155, 213>>>>,
      <<1974, 2069,
        <<158, 11, 95, 195, 105, 131, 79, 217, 165, 138, 133, 120, 238, 175, 251, 149,
          162, 54, 244, 95, 73, 204, 208, 206, 123, 131, 44, 129, 238, 190, 157, 134>>>>,
      <<1978, 2069,
        <<213, 54, 147, 215, 188, 187, 99, 104, 76, 97, 35, 147, 161, 254, 114, 83,
          186, 49, 199, 237, 115, 215, 217, 133, 57, 50, 255, 47, 190, 2, 98, 42>>>>,
      <<2070, 1990,
        <<76, 217, 85, 181, 151, 22, 217, 183, 252, 113, 111, 18, 11, 232, 110, 120,
          56, 69, 49, 225, 228, 188, 33, 108, 98, 51, 23, 16, 31, 46, 61, 98>>>>,
      <<2070, 1991,
        <<95, 255, 162, 13, 8, 241, 110, 86, 188, 108, 184, 78, 146, 218, 88, 181,
          157, 82, 182, 206, 136, 253, 41, 122, 21, 9, 87, 69, 224, 133, 6, 19>>>>,
      <<2070, 1992,
        <<44, 22, 57, 70, 65, 50, 125, 210, 119, 75, 215, 250, 188, 131, 48, 28,
          185, 120, 190, 100, 150, 161, 89, 99, 240, 157, 196, 19, 33, 38, 98, 227>>>>,
      <<2070, 1993,
        <<13, 174, 112, 148, 152, 228, 66, 84, 238, 218, 6, 236, 91, 197, 95, 14,
          91, 235, 109, 251, 140, 65, 168, 233, 230, 71, 127, 115, 128, 232, 97, 87>>>>,
      <<2070, 1994,
        <<108, 80, 81, 39, 139, 198, 47, 61, 149, 31, 179, 58, 183, 234, 10, 241,
          58, 136, 142, 89, 9, 241, 30, 16, 144, 176, 61, 202, 254, 118, 249, 177>>>>,
      <<2008, 2071,
        <<175, 113, 126, 187, 212, 131, 114, 242, 4, 178, 42, 119, 218, 19, 131, 200,
          191, 148, 249, 126, 49, 239, 43, 33, 106, 144, 133, 240, 59, 120, 61, 244>>>>,
      <<2072, 2030,
        <<72, 182, 27, 143, 217, 55, 117, 142, 237, 75, 60, 68, 73, 233, 186, 59,
          100, 176, 57, 20, 81, 89, 234, 26, 203, 167, 215, 151, 128, 178, 182, 205>>>>,
      <<2084, 2086,
        <<117, 63, 205, 167, 186, 81, 46, 206, 23, 32, 254, 196, 23, 213, 75, 42,
          104, 137, 193, 83, 212, 251, 0, 110, 195, 31, 115, 72, 211, 220, 168, 223>>>>,
      <<35, 2149,
        <<249, 143, 52, 5, 246, 249, 173, 246, 95, 164, 167, 116, 140, 113, 114, 176,
          107, 123, 12, 51, 179, 39, 198, 110, 203, 229, 106, 138, 97, 186, 125, 116>>>>,
      <<35, 2150,
        <<49, 43, 208, 216, 29, 238, 101, 105, 238, 209, 156, 180, 133, 64, 106, 252,
          123, 163, 192, 63, 153, 138, 63, 10, 189, 148, 54, 15, 94, 185, 189, 169>>>>,
      <<36, 2152,
        <<22, 132, 3, 214, 46, 137, 128, 213, 43, 39, 216, 212, 222, 217, 156, 78,
          28, 125, 219, 17, 207, 200, 85, 39, 24, 43, 123, 111, 174, 1, 206, 154>>>>,
      <<2152, 252,
        <<99, 217, 185, 130, 113, 255, 246, 20, 243, 143, 106, 25, 157, 81, 85, 36,
          31, 56, 80, 121, 64, 52, 42, 148, 64, 34, 192, 67, 14, 82, 110, 134>>>>,
      <<2154, 252,
        <<43, 159, 254, 131, 176, 219, 91, 36, 238, 190, 82, 129, 196, 2, 76, 18,
          49, 26, 229, 231, 52, 46, 17, 59, 211, 96, 115, 195, 194, 126, 121, 132>>>>,
      <<36, 2155,
        <<25, 51, 103, 251, 192, 87, 63, 107, 51, 128, 202, 205, 154, 30, 144, 84,
          181, 167, 113, 98, 249, 0, 201, 242, 117, 143, 116, 191, 47, 233, 143, 183>>>>,
      <<252, 2162,
        <<65, 53, 212, 48, 9, 210, 190, 205, 252, 31, 199, 140, 23, 176, 114, 46,
          206, 211, 6, 247, 133, 234, 247, 161, 109, 125, 60, 238, 248, 200, 9, 41>>>>,
      <<2162, 35,
        <<112, 179, 135, 214, 28, 234, 237, 236, 94, 81, 195, 35, 86, 134, 148, 203,
          0, 88, 141, 227, 247, 39, 175, 123, 73, 184, 47, 29, 100, 231, 20, 88>>>>,
      <<252, 2164,
        <<96, 15, 13, 6, 255, 191, 18, 15, 105, 180, 233, 60, 3, 77, 48, 199,
          150, 78, 50, 72, 22, 70, 241, 71, 139, 94, 110, 60, 129, 167, 32, 4>>>>,
      <<2166, 35,
        <<103, 210, 72, 197, 7, 203, 185, 222, 202, 60, 232, 143, 243, 196, 38, 210,
          19, 201, 77, 130, 208, 56, 233, 237, 116, 75, 227, 166, 31, 248, 65, 98>>>>,
      <<252, 2167,
        <<69, 0, 41, 164, 54, 121, 208, 60, 191, 49, 38, 150, 200, 192, 214, 9,
          56, 232, 193, 200, 24, 182, 239, 210, 188, 41, 141, 62, 193, 129, 42, 29>>>>,
      <<2167, 36,
        <<47, 145, 31, 53, 183, 210, 250, 176, 174, 3, 183, 218, 36, 174, 159, 181,
          0, 65, 146, 102, 13, 132, 162, 180, 168, 228, 34, 73, 164, 75, 89, 150>>>>,
      <<252, 2169,
        <<114, 56, 251, 199, 143, 216, 106, 138, 233, 251, 74, 246, 61, 26, 142, 227,
          11, 77, 32, 194, 42, 71, 10, 172, 95, 116, 164, 43, 127, 215, 150, 90>>>>,
      <<2171, 36,
        <<55, 243, 29, 75, 95, 184, 171, 83, 156, 44, 160, 102, 253, 31, 28, 113,
          55, 252, 222, 49, 162, 185, 154, 71, 199, 206, 194, 237, 200, 93, 105, 179>>>>,
      <<252, 2172,
        <<238, 79, 145, 240, 248, 197, 125, 36, 234, 98, 98, 133, 20, 140, 143, 182,
          218, 22, 15, 8, 147, 82, 137, 56, 100, 211, 24, 158, 114, 4, 250, 64>>>>,
      <<252, 2178,
        <<29, 47, 172, 216, 33, 221, 156, 67, 48, 106, 170, 215, 96, 254, 80, 219,
          26, 160, 106, 31, 63, 142, 15, 106, 53, 85, 11, 211, 194, 188, 208, 213>>>>,
      <<2187, 38,
        <<75, 204, 4, 212, 87, 18, 175, 9, 187, 160, 9, 127, 138, 35, 250, 83,
          252, 48, 78, 165, 212, 235, 41, 148, 54, 6, 214, 192, 176, 69, 245, 135>>>>,
      <<252, 2188,
        <<25, 172, 241, 223, 88, 199, 220, 48, 26, 198, 198, 245, 254, 201, 68, 159,
          67, 123, 71, 106, 245, 229, 46, 25, 63, 22, 34, 122, 241, 70, 208, 186>>>>,
      <<252, 2190,
        <<200, 12, 40, 198, 127, 190, 45, 167, 1, 10, 0, 239, 53, 222, 187, 98,
          98, 58, 96, 22, 67, 159, 53, 3, 199, 74, 59, 170, 12, 175, 100, 243>>>>,
      <<2191, 38,
        <<230, 103, 170, 210, 77, 182, 86, 200, 25, 55, 191, 42, 95, 144, 208, 160,
          2, 16, 171, 20, 202, 60, 10, 67, 88, 199, 240, 193, 14, 204, 47, 19>>>>,
      <<2193, 40,
        <<162, 59, 145, 170, 6, 216, 72, 240, 53, 15, 96, 4, 55, 66, 21, 61,
          150, 152, 31, 187, 167, 79, 164, 112, 248, 60, 86, 119, 13, 228, 45, 113>>>>,
      <<252, 2194,
        <<127, 164, 72, 185, 136, 12, 18, 114, 120, 190, 129, 154, 2, 14, 96, 251,
          127, 248, 255, 210, 193, 24, 4, 109, 62, 218, 229, 86, 140, 94, 7, 179>>>>,
      <<252, 2196,
        <<214, 230, 80, 70, 126, 215, 209, 206, 217, 197, 130, 77, 227, 147, 100, 140,
          66, 105, 135, 107, 36, 69, 8, 60, 198, 82, 217, 47, 99, 144, 137, 252>>>>,
      <<2197, 40,
        <<7, 162, 248, 8, 24, 61, 96, 184, 203, 65, 50, 31, 157, 35, 180, 133,
          154, 149, 170, 244, 52, 121, 203, 250, 82, 222, 17, 133, 92, 19, 72, 116>>>>,
      <<252, 2199,
        <<68, 145, 25, 80, 99, 7, 177, 94, 162, 239, 54, 70, 105, 115, 121, 51,
          20, 26, 211, 168, 81, 25, 6, 20, 88, 246, 164, 246, 254, 243, 164, 246>>>>,
      <<252, 2200,
        <<139, 143, 233, 43, 44, 44, 103, 199, 80, 35, 37, 85, 234, 1, 227, 20,
          70, 51, 49, 92, 119, 14, 221, 137, 29, 47, 223, 158, 8, 17, 197, 74>>>>,
      <<2207, 253,
        <<152, 164, 27, 217, 234, 42, 98, 33, 237, 210, 0, 112, 53, 164, 211, 193,
          102, 23, 180, 18, 116, 185, 132, 143, 203, 171, 249, 177, 25, 101, 182, 188>>>>,
      <<35, 2208,
        <<249, 84, 12, 229, 89, 66, 10, 161, 254, 223, 99, 79, 122, 236, 106, 233,
          146, 41, 77, 74, 178, 225, 37, 187, 43, 188, 228, 196, 31, 205, 65, 156>>>>,
      <<2210, 253,
        <<22, 162, 114, 174, 183, 47, 126, 49, 194, 159, 89, 119, 235, 9, 132, 42,
          48, 71, 151, 128, 148, 140, 140, 147, 254, 130, 155, 40, 50, 105, 186, 78>>>>,
      <<35, 2211,
        <<144, 185, 6, 2, 170, 43, 13, 187, 247, 207, 251, 12, 78, 176, 36, 120,
          188, 93, 19, 114, 239, 234, 13, 222, 187, 167, 48, 6, 121, 152, 220, 149>>>>,
      <<2213, 253,
        <<209, 101, 229, 4, 224, 225, 111, 109, 35, 226, 47, 183, 76, 56, 52, 123,
          20, 88, 86, 217, 116, 107, 58, 190, 164, 108, 179, 83, 101, 82, 49, 64>>>>,
      <<36, 2214,
        <<176, 175, 93, 49, 223, 114, 193, 214, 170, 155, 177, 237, 170, 31, 216, 239,
          130, 57, 116, 10, 27, 28, 126, 178, 246, 146, 125, 23, 178, 53, 41, 5>>>>,
      <<2216, 253,
        <<191, 19, 195, 110, 205, 33, 21, 164, 163, 24, 46, 128, 90, 74, 42, 23,
          31, 102, 63, 170, 136, 168, 17, 168, 198, 241, 64, 202, 166, 82, 102, 159>>>>,
      <<36, 2217,
        <<237, 193, 165, 201, 10, 253, 47, 73, 2, 100, 113, 205, 219, 25, 230, 108,
          148, 7, 95, 59, 116, 0, 139, 88, 122, 198, 161, 102, 210, 41, 175, 65>>>>,
      <<2220, 253,
        <<87, 3, 134, 233, 14, 63, 27, 67, 184, 185, 184, 216, 127, 246, 165, 133,
          135, 123, 187, 116, 253, 209, 157, 44, 241, 99, 89, 49, 220, 46, 243, 144>>>>,
      <<252, 2221,
        <<51, 127, 205, 40, 166, 65, 195, 134, 210, 184, 195, 212, 241, 43, 183, 169,
          105, 136, 97, 213, 161, 42, 75, 67, 165, 41, 121, 254, 25, 79, 172, 94>>>>,
      <<252, 2223,
        <<64, 80, 215, 82, 95, 1, 98, 15, 251, 97, 92, 165, 55, 160, 58, 198,
          10, 208, 232, 132, 124, 203, 161, 33, 115, 210, 169, 214, 253, 126, 90, 173>>>>,
      <<2223, 253,
        <<239, 223, 74, 68, 60, 94, 181, 63, 43, 153, 10, 82, 162, 248, 161, 237,
          23, 29, 106, 132, 144, 20, 44, 39, 202, 194, 215, 228, 194, 244, 84, 229>>>>,
      <<2234, 254,
        <<189, 116, 53, 169, 15, 214, 176, 99, 152, 13, 44, 121, 192, 72, 40, 121,
          68, 234, 208, 240, 220, 104, 183, 179, 113, 188, 78, 96, 84, 98, 32, 39>>>>,
      <<36, 2235,
        <<51, 55, 53, 50, 60, 246, 249, 152, 203, 153, 168, 139, 10, 207, 174, 173,
          27, 86, 118, 235, 209, 208, 255, 33, 134, 127, 147, 200, 252, 169, 64, 239>>>>,
      <<2237, 254,
        <<211, 104, 175, 90, 43, 252, 105, 5, 93, 51, 14, 69, 21, 106, 185, 14,
          240, 105, 247, 140, 200, 151, 27, 34, 114, 151, 78, 20, 23, 80, 44, 163>>>>,
      <<36, 2238,
        <<84, 250, 140, 23, 190, 78, 63, 102, 101, 21, 5, 205, 97, 186, 117, 193,
          64, 162, 216, 152, 160, 66, 52, 248, 126, 134, 113, 172, 130, 57, 210, 102>>>>,
      <<35, 2273,
        <<207, 247, 18, 12, 156, 109, 21, 92, 46, 120, 191, 172, 45, 136, 8, 76,
          9, 0, 230, 36, 152, 203, 108, 124, 176, 180, 245, 250, 122, 116, 111, 239>>>>,
      <<35, 2274,
        <<188, 154, 46, 186, 219, 82, 53, 105, 129, 83, 78, 161, 73, 93, 178, 22,
          48, 42, 221, 61, 132, 66, 115, 0, 14, 158, 236, 118, 64, 231, 62, 126>>>>,
      <<2276, 260,
        <<82, 2, 218, 179, 145, 77, 177, 125, 44, 133, 186, 80, 123, 98, 104, 117,
          135, 85, 138, 152, 120, 49, 132, 87, 41, 212, 182, 80, 97, 147, 37, 48>>>>,
      <<36, 2278,
        <<15, 116, 155, 230, 114, 135, 99, 172, 94, 214, 46, 110, 202, 114, 10, 120,
          55, 127, 58, 35, 214, 241, 169, 196, 11, 177, 105, 149, 239, 54, 155, 45>>>>,
      <<36, 2279,
        <<226, 191, 39, 72, 139, 166, 229, 100, 214, 87, 170, 205, 115, 177, 147, 158,
          58, 233, 116, 69, 104, 3, 27, 105, 180, 225, 50, 238, 146, 237, 130, 179>>>>,
      <<2280, 260,
        <<233, 121, 245, 10, 160, 39, 123, 60, 111, 248, 81, 115, 236, 93, 133, 18,
          86, 103, 8, 212, 194, 252, 31, 10, 36, 102, 82, 229, 14, 37, 202, 154>>>>,
      <<252, 2294,
        <<218, 216, 69, 192, 199, 220, 211, 205, 106, 219, 171, 194, 217, 119, 122, 1,
          255, 70, 59, 97, 130, 195, 183, 208, 51, 221, 55, 130, 105, 104, 1, 50>>>>,
      <<252, 2295,
        <<186, 95, 41, 120, 83, 42, 218, 81, 228, 33, 169, 150, 108, 255, 177, 242,
          79, 221, 106, 224, 220, 253, 100, 166, 64, 239, 190, 62, 180, 172, 85, 131>>>>,
      <<260, 2312,
        <<208, 161, 136, 15, 102, 162, 213, 239, 54, 61, 51, 178, 180, 181, 77, 212,
          64, 44, 142, 149, 109, 188, 199, 116, 135, 191, 216, 23, 153, 29, 17, 52>>>>,
      <<2313, 35,
        <<231, 137, 225, 101, 174, 51, 52, 76, 8, 134, 130, 159, 217, 196, 240, 25,
          205, 40, 67, 50, 220, 22, 236, 211, 202, 38, 9, 82, 59, 122, 131, 1>>>>,
      <<260, 2315,
        <<97, 132, 91, 78, 25, 128, 130, 102, 208, 210, 10, 164, 97, 156, 190, 59,
          242, 153, 252, 5, 162, 96, 154, 63, 212, 195, 178, 194, 192, 169, 160, 30>>>>,
      <<2315, 35,
        <<167, 205, 184, 120, 102, 106, 118, 181, 48, 136, 134, 123, 78, 59, 77, 14,
          190, 187, 65, 134, 238, 64, 12, 12, 129, 19, 122, 39, 143, 157, 224, 252>>>>,
      <<260, 2317,
        <<209, 10, 105, 153, 80, 46, 146, 49, 95, 108, 63, 163, 114, 86, 194, 227,
          185, 176, 122, 165, 122, 5, 100, 18, 44, 65, 16, 185, 124, 161, 216, 209>>>>,
      <<2318, 36,
        <<4, 9, 137, 60, 81, 147, 189, 35, 212, 206, 223, 173, 12, 30, 232, 194,
          236, 255, 170, 16, 202, 46, 191, 48, 67, 61, 229, 44, 215, 244, 81, 94>>>>,
      <<2320, 36,
        <<10, 118, 176, 73, 220, 88, 228, 142, 22, 232, 116, 59, 35, 44, 121, 85,
          214, 102, 2, 38, 188, 145, 91, 188, 176, 154, 126, 49, 185, 92, 139, 191>>>>,
      <<260, 2321,
        <<30, 238, 148, 68, 237, 210, 39, 15, 71, 37, 24, 247, 25, 244, 225, 101,
          150, 23, 223, 68, 33, 58, 170, 210, 4, 13, 172, 118, 111, 168, 96, 14>>>>,
      <<260, 2323,
        <<55, 229, 20, 38, 83, 254, 117, 20, 247, 184, 201, 6, 74, 64, 11, 181,
          4, 146, 25, 94, 8, 155, 153, 227, 238, 243, 1, 149, 44, 119, 99, 77>>>>,
      <<260, 2325,
        <<85, 250, 184, 214, 126, 167, 23, 34, 148, 184, 247, 159, 113, 143, 10, 79,
          203, 247, 147, 153, 145, 187, 248, 237, 174, 131, 118, 50, 109, 202, 168, 155>>>>,
      <<260, 2327,
        <<126, 74, 101, 168, 231, 97, 198, 4, 57, 210, 49, 7, 195, 245, 128, 20,
          15, 109, 216, 191, 52, 232, 209, 185, 162, 238, 28, 108, 23, 33, 55, 25>>>>,
      <<2328, 38,
        <<28, 44, 220, 84, 117, 83, 70, 123, 76, 174, 203, 82, 151, 158, 157, 231,
          253, 64, 79, 192, 17, 51, 25, 229, 4, 46, 53, 210, 81, 171, 128, 247>>>>,
      <<2330, 38,
        <<52, 44, 219, 173, 25, 223, 90, 76, 247, 228, 27, 226, 83, 46, 226, 65,
          229, 193, 108, 151, 191, 12, 153, 201, 250, 10, 144, 192, 73, 217, 59, 181>>>>,
      <<260, 2331,
        <<165, 250, 48, 160, 200, 36, 251, 97, 7, 39, 119, 43, 195, 136, 240, 167,
          222, 145, 225, 107, 42, 209, 5, 102, 151, 68, 121, 255, 177, 13, 211, 214>>>>,
      <<260, 2333,
        <<113, 118, 18, 8, 15, 153, 123, 224, 179, 163, 222, 240, 51, 123, 165, 79,
          233, 25, 80, 61, 139, 123, 23, 90, 210, 46, 220, 28, 192, 12, 37, 0>>>>,
      <<2334, 40,
        <<30, 76, 15, 199, 110, 159, 1, 86, 110, 128, 204, 32, 238, 68, 123, 114,
          29, 60, 240, 238, 140, 43, 10, 189, 211, 63, 201, 171, 39, 105, 165, 116>>>>,
      <<2336, 40,
        <<73, 166, 232, 27, 8, 157, 100, 89, 76, 19, 157, 116, 227, 81, 44, 56,
          125, 95, 52, 114, 147, 148, 42, 216, 100, 111, 7, 11, 147, 40, 78, 147>>>>,
      <<260, 2337,
        <<52, 128, 167, 155, 87, 182, 161, 57, 70, 0, 55, 108, 21, 241, 220, 11,
          66, 183, 68, 71, 82, 151, 216, 64, 56, 36, 70, 126, 253, 231, 184, 235>>>>,
      <<260, 2339,
        <<145, 92, 43, 11, 155, 170, 255, 15, 23, 156, 200, 82, 68, 235, 202, 250,
          203, 178, 52, 118, 5, 94, 69, 12, 92, 2, 242, 178, 184, 189, 231, 147>>>>,
      <<260, 2340,
        <<79, 227, 120, 223, 65, 87, 72, 97, 151, 162, 219, 89, 189, 94, 118, 130,
          61, 229, 133, 82, 9, 54, 145, 142, 159, 47, 86, 219, 171, 51, 47, 70>>>>,
      <<260, 2342,
        <<53, 191, 192, 168, 197, 237, 132, 118, 198, 182, 189, 239, 82, 109, 164, 211,
          129, 183, 100, 126, 70, 242, 89, 204, 177, 135, 67, 141, 90, 6, 240, 22>>>>,
      <<2343, 253,
        <<224, 29, 147, 162, 215, 201, 158, 57, 30, 111, 87, 163, 160, 89, 74, 150,
          100, 219, 23, 248, 66, 234, 176, 24, 14, 36, 181, 96, 139, 162, 79, 74>>>>,
      <<2345, 253,
        <<86, 104, 29, 19, 99, 57, 24, 132, 221, 16, 170, 84, 23, 237, 111, 90,
          174, 219, 88, 64, 207, 0, 99, 73, 255, 124, 19, 13, 242, 41, 64, 174>>>>,
      <<260, 2346,
        <<179, 155, 221, 45, 197, 239, 169, 178, 128, 233, 49, 78, 163, 119, 248, 61,
          34, 104, 250, 200, 183, 254, 143, 127, 23, 91, 247, 102, 148, 250, 35, 8>>>>,
      <<260, 2348,
        <<225, 123, 137, 199, 129, 89, 205, 241, 156, 37, 216, 169, 77, 181, 210, 80,
          36, 63, 56, 128, 19, 48, 226, 98, 254, 138, 219, 214, 154, 167, 15, 33>>>>,
      <<260, 2349,
        <<58, 71, 215, 172, 115, 169, 219, 9, 152, 146, 0, 88, 21, 15, 51, 87,
          215, 55, 134, 223, 153, 75, 187, 204, 96, 3, 30, 3, 241, 67, 211, 64>>>>,
      <<2352, 261,
        <<13, 150, 94, 92, 21, 8, 44, 58, 61, 21, 227, 207, 73, 80, 25, 95,
          195, 39, 168, 51, 34, 215, 6, 241, 86, 166, 162, 185, 184, 15, 7, 213>>>>,
      <<35, 2354,
        <<245, 26, 27, 58, 96, 114, 3, 174, 27, 103, 51, 3, 103, 29, 211, 154,
          242, 206, 229, 216, 127, 73, 27, 253, 197, 124, 119, 247, 210, 94, 145, 148>>>>,
      <<2355, 261,
        <<59, 21, 154, 214, 206, 141, 24, 61, 158, 33, 125, 109, 68, 71, 160, 81,
          151, 246, 125, 226, 175, 103, 185, 48, 48, 1, 7, 70, 192, 232, 246, 127>>>>,
      <<35, 2356,
        <<114, 251, 136, 166, 205, 38, 59, 182, 173, 237, 67, 236, 33, 65, 190, 28,
          88, 149, 93, 105, 22, 134, 89, 200, 249, 165, 152, 226, 127, 168, 71, 181>>>>,
      <<2358, 261,
        <<203, 56, 35, 80, 225, 238, 55, 107, 49, 218, 168, 120, 36, 37, 207, 227,
          231, 84, 71, 62, 138, 6, 58, 104, 168, 109, 214, 189, 225, 231, 193, 244>>>>,
      <<36, 2360,
        <<91, 202, 232, 27, 196, 219, 62, 79, 115, 86, 16, 122, 129, 215, 225, 43,
          9, 212, 222, 139, 42, 50, 41, 127, 216, 101, 138, 173, 109, 134, 71, 205>>>>,
      <<36, 2361,
        <<224, 188, 20, 60, 177, 20, 30, 130, 161, 85, 112, 206, 242, 86, 183, 128,
          177, 6, 111, 163, 200, 30, 160, 40, 45, 138, 13, 200, 207, 56, 207, 208>>>>,
      <<2361, 261,
        <<130, 41, 127, 46, 250, 255, 50, 110, 115, 110, 165, 92, 241, 188, 193, 93,
          179, 38, 204, 88, 140, 114, 18, 19, 194, 215, 24, 65, 156, 190, 144, 127>>>>,
      <<2368, 261,
        <<161, 220, 10, 67, 64, 157, 55, 189, 12, 163, 9, 153, 137, 103, 135, 158,
          235, 165, 115, 134, 236, 159, 250, 85, 164, 215, 17, 219, 77, 222, 41, 92>>>>,
      <<252, 2369,
        <<23, 252, 176, 28, 209, 221, 140, 245, 229, 78, 184, 88, 36, 46, 254, 211,
          45, 154, 11, 162, 115, 44, 181, 239, 209, 231, 190, 139, 171, 209, 44, 98>>>>,
      <<252, 2371,
        <<227, 187, 134, 199, 192, 246, 30, 24, 139, 18, 211, 145, 71, 42, 54, 113,
          220, 91, 77, 122, 210, 111, 250, 183, 71, 235, 117, 111, 235, 194, 148, 172>>>>,
      <<2372, 261,
        <<64, 15, 30, 201, 39, 5, 217, 54, 86, 168, 139, 222, 62, 19, 194, 66,
          6, 199, 85, 43, 190, 35, 114, 121, 99, 219, 252, 207, 205, 109, 227, 116>>>>,
      <<260, 2374,
        <<41, 135, 140, 254, 120, 155, 93, 226, 51, 111, 88, 115, 132, 7, 18, 234,
          80, 168, 103, 102, 141, 219, 100, 71, 129, 12, 75, 49, 180, 197, 175, 82>>>>,
      <<2374, 261,
        <<243, 137, 228, 126, 223, 226, 221, 72, 117, 85, 144, 85, 136, 163, 95, 1,
          204, 109, 151, 64, 42, 134, 92, 215, 149, 151, 201, 1, 42, 181, 5, 251>>>>,
      <<2376, 261,
        <<103, 117, 46, 44, 10, 58, 159, 82, 150, 159, 193, 56, 233, 12, 180, 100,
          211, 163, 189, 108, 74, 185, 217, 28, 242, 135, 124, 65, 202, 242, 163, 46>>>>,
      <<260, 2377,
        <<98, 73, 102, 244, 155, 146, 14, 10, 234, 168, 5, 91, 55, 86, 82, 205,
          186, 128, 92, 110, 211, 181, 140, 81, 1, 185, 125, 148, 159, 112, 23, 206>>>>,
      <<2387, 262,
        <<201, 211, 120, 101, 228, 119, 161, 217, 52, 112, 85, 122, 146, 114, 6, 2,
          2, 7, 104, 62, 202, 229, 152, 22, 189, 237, 114, 124, 61, 12, 107, 37>>>>,
      <<36, 2389,
        <<40, 160, 186, 73, 138, 125, 169, 76, 51, 163, 213, 208, 209, 139, 32, 154,
          61, 37, 95, 105, 226, 86, 39, 72, 50, 26, 99, 62, 162, 238, 189, 204>>>>,
      <<2390, 262,
        <<83, 128, 207, 99, 101, 137, 196, 223, 211, 33, 164, 217, 51, 84, 231, 55,
          195, 244, 246, 152, 29, 69, 28, 174, 243, 202, 177, 255, 159, 98, 81, 247>>>>,
      <<36, 2391,
        <<42, 189, 56, 171, 126, 7, 53, 41, 130, 199, 63, 120, 122, 165, 226, 246,
          51, 174, 24, 190, 24, 29, 192, 171, 101, 215, 142, 196, 221, 93, 220, 173>>>>,
      <<2398, 268,
        <<203, 187, 220, 23, 129, 212, 45, 205, 177, 81, 53, 244, 75, 89, 82, 129,
          161, 151, 50, 161, 250, 4, 70, 120, 126, 47, 66, 133, 12, 173, 237, 28>>>>,
      <<35, 2400,
        <<236, 3, 185, 91, 128, 170, 160, 38, 89, 120, 169, 55, 76, 219, 175, 218,
          112, 77, 165, 39, 90, 192, 135, 65, 146, 156, 53, 60, 219, 149, 199, 120>>>>,
      <<2401, 268,
        <<86, 80, 20, 1, 228, 210, 26, 224, 169, 10, 12, 88, 120, 218, 37, 47,
          207, 3, 192, 162, 103, 47, 198, 35, 164, 207, 62, 100, 180, 178, 28, 123>>>>,
      <<35, 2402,
        <<245, 149, 156, 109, 195, 5, 78, 139, 246, 104, 75, 22, 215, 15, 137, 110,
          76, 187, 244, 85, 236, 120, 180, 102, 164, 90, 218, 214, 65, 81, 45, 125>>>>,
      <<2404, 268,
        <<67, 185, 108, 38, 124, 138, 76, 116, 173, 85, 5, 239, 159, 88, 138, 251,
          80, 131, 41, 252, 32, 99, 94, 227, 168, 251, 13, 178, 207, 28, 199, 122>>>>,
      <<36, 2406,
        <<152, 10, 178, 192, 238, 245, 239, 129, 87, 106, 132, 15, 118, 212, 90, 247,
          139, 198, 233, 94, 20, 5, 79, 216, 244, 150, 70, 169, 73, 37, 99, 195>>>>,
      <<2407, 268,
        <<10, 69, 1, 62, 131, 233, 157, 181, 222, 191, 64, 14, 166, 234, 150, 14,
          78, 9, 147, 13, 160, 21, 0, 127, 91, 21, 99, 118, 138, 88, 187, 222>>>>,
      <<36, 2408,
        <<131, 5, 17, 78, 167, 182, 194, 39, 219, 39, 100, 6, 224, 11, 106, 93,
          123, 190, 201, 146, 197, 219, 215, 173, 164, 85, 85, 189, 201, 21, 68, 217>>>>,
      <<2418, 268,
        <<225, 185, 60, 22, 94, 233, 9, 189, 35, 69, 56, 84, 200, 153, 150, 160,
          29, 228, 96, 75, 201, 24, 81, 4, 13, 185, 132, 97, 190, 129, 70, 21>>>>,
      <<252, 2419,
        <<201, 4, 90, 53, 6, 181, 199, 142, 116, 210, 61, 233, 132, 101, 221, 113,
          179, 191, 129, 31, 170, 190, 255, 236, 38, 57, 97, 124, 115, 207, 62, 244>>>>,
      <<252, 2421,
        <<239, 145, 41, 193, 223, 249, 123, 106, 195, 66, 78, 2, 7, 198, 251, 184,
          0, 250, 208, 255, 86, 133, 229, 229, 232, 211, 242, 81, 202, 216, 71, 100>>>>,
      <<2421, 268,
        <<208, 13, 61, 3, 28, 202, 229, 47, 192, 137, 28, 187, 9, 108, 127, 167,
          181, 172, 75, 197, 167, 183, 237, 203, 55, 129, 241, 139, 127, 251, 211, 202>>>>,
      <<260, 2423,
        <<161, 119, 203, 153, 153, 107, 41, 15, 237, 128, 192, 115, 124, 116, 10, 9,
          47, 142, 156, 161, 132, 158, 59, 208, 9, 15, 17, 214, 121, 172, 101, 191>>>>,
      <<2423, 268,
        <<142, 231, 254, 188, 140, 152, 19, 9, 60, 136, 62, 20, 24, 84, 4, 136,
          227, 201, 243, 140, 237, 128, 78, 224, 124, 17, 14, 4, 94, 156, 246, 119>>>>,
      <<2425, 268,
        <<52, 143, 68, 115, 193, 103, 58, 1, 106, 105, 199, 242, 151, 226, 178, 168,
          220, 210, 163, 53, 77, 108, 116, 123, 134, 90, 152, 150, 112, 52, 54, 33>>>>,
      <<260, 2426,
        <<234, 165, 53, 183, 180, 83, 217, 98, 242, 241, 74, 110, 243, 105, 91, 240,
          223, 238, 35, 219, 197, 178, 183, 29, 102, 132, 17, 54, 78, 27, 40, 27>>>>,
      <<268, 2432,
        <<50, 12, 28, 242, 179, 185, 111, 126, 78, 124, 153, 123, 221, 84, 23, 209,
          105, 26, 224, 173, 10, 165, 24, 170, 242, 15, 121, 13, 235, 71, 60, 182>>>>,
      <<2433, 35,
        <<3, 153, 31, 167, 223, 229, 51, 44, 115, 72, 85, 217, 13, 175, 88, 118,
          132, 180, 32, 160, 149, 78, 192, 68, 61, 188, 233, 224, 88, 198, 162, 99>>>>,
      <<268, 2435,
        <<219, 125, 32, 110, 240, 245, 147, 69, 7, 246, 205, 108, 65, 158, 135, 148,
          17, 229, 145, 73, 118, 80, 113, 127, 15, 107, 51, 53, 82, 103, 188, 4>>>>,
      <<2437, 35,
        <<153, 4, 90, 137, 250, 66, 130, 151, 70, 173, 61, 47, 23, 167, 15, 174,
          236, 92, 88, 44, 146, 31, 218, 166, 172, 112, 110, 138, 113, 174, 163, 73>>>>,
      <<268, 2438,
        <<144, 4, 128, 6, 239, 21, 131, 244, 241, 31, 19, 226, 110, 37, 148, 58,
          3, 171, 91, 70, 149, 40, 152, 163, 63, 22, 72, 45, 68, 137, 10, 224>>>>,
      <<2439, 36,
        <<80, 173, 129, 185, 146, 217, 60, 190, 242, 178, 249, 208, 81, 172, 141, 26,
          72, 41, 98, 57, 218, 7, 172, 138, 90, 13, 0, 17, 105, 185, 65, 212>>>>,
      <<268, 2441,
        <<228, 19, 245, 174, 121, 157, 59, 156, 185, 12, 107, 12, 21, 240, 114, 138,
          98, 104, 249, 70, 146, 26, 99, 139, 13, 195, 132, 50, 204, 34, 166, 31>>>>,
      <<2443, 36,
        <<215, 195, 63, 237, 131, 160, 217, 196, 12, 143, 214, 12, 15, 126, 61, 190,
          46, 136, 113, 171, 137, 135, 230, 137, 68, 94, 197, 226, 15, 52, 162, 180>>>>,
      <<268, 2452,
        <<227, 101, 215, 197, 34, 220, 119, 221, 126, 67, 120, 129, 91, 158, 170, 31,
          202, 15, 3, 81, 108, 23, 55, 85, 209, 159, 168, 76, 78, 99, 31, 107>>>>,
      <<268, 2453,
        <<121, 111, 30, 153, 38, 110, 227, 72, 178, 120, 139, 56, 65, 132, 195, 5,
          123, 85, 146, 27, 155, 113, 63, 42, 251, 104, 219, 152, 15, 235, 54, 55>>>>,
      <<268, 2455,
        <<141, 178, 66, 199, 33, 194, 38, 90, 4, 124, 58, 41, 156, 152, 187, 41,
          186, 176, 143, 127, 36, 140, 65, 221, 0, 141, 198, 26, 241, 166, 199, 152>>>>,
      <<268, 2456,
        <<63, 202, 132, 1, 117, 42, 154, 55, 238, 227, 122, 141, 7, 42, 165, 241,
          208, 57, 188, 243, 221, 59, 191, 212, 43, 169, 16, 129, 137, 177, 224, 17>>>>,
      <<268, 2458,
        <<177, 92, 216, 180, 177, 75, 79, 218, 204, 85, 244, 182, 151, 89, 234, 200,
          160, 197, 176, 140, 162, 15, 148, 82, 64, 106, 12, 161, 122, 240, 1, 15>>>>,
      <<268, 2459,
        <<227, 37, 123, 244, 172, 58, 151, 176, 26, 134, 32, 70, 210, 220, 99, 174,
          84, 238, 54, 6, 128, 59, 107, 90, 120, 48, 26, 52, 81, 79, 22, 184>>>>,
      <<2705, 1,
        <<170, 101, 107, 108, 119, 90, 229, 57, 236, 66, 214, 13, 4, 59, 147, 148,
          206, 95, 197, 18, 64, 162, 137, 57, 206, 134, 98, 16, 33, 220, 6, 214>>>>,
      <<2705, 2,
        <<15, 77, 223, 242, 74, 65, 201, 84, 9, 148, 171, 45, 130, 118, 136, 208,
          154, 133, 124, 167, 222, 132, 6, 166, 245, 163, 193, 251, 31, 117, 221, 231>>>>,
      <<2705, 3,
        <<153, 130, 219, 88, 69, 76, 103, 107, 215, 82, 82, 190, 39, 20, 11, 244,
          145, 186, 1, 110, 248, 208, 188, 172, 47, 73, 106, 95, 82, 224, 193, 149>>>>,
      <<2705, 4,
        <<100, 254, 90, 247, 100, 80, 158, 57, 75, 84, 173, 36, 47, 167, 169, 175,
          85, 165, 114, 55, 182, 186, 134, 174, 177, 245, 209, 236, 44, 166, 146, 159>>>>,
      <<2705, 5,
        <<170, 54, 143, 170, 134, 106, 98, 198, 38, 32, 234, 101, 195, 196, 44, 201,
          34, 175, 145, 207, 199, 9, 255, 139, 170, 227, 90, 136, 177, 82, 67, 99>>>>,
      <<2705, 6,
        <<62, 16, 109, 161, 129, 34, 219, 42, 116, 215, 213, 203, 149, 1, 188, 225,
          209, 237, 75, 245, 100, 87, 85, 34, 114, 60, 138, 152, 81, 94, 65, 148>>>>,
      <<2705, 7,
        <<102, 34, 212, 228, 212, 100, 190, 232, 237, 91, 188, 178, 10, 158, 204, 154,
          254, 108, 143, 184, 4, 97, 30, 46, 54, 231, 234, 47, 237, 229, 26, 190>>>>,
      <<2705, 8,
        <<197, 49, 246, 15, 18, 145, 43, 67, 91, 59, 252, 188, 1, 140, 205, 151,
          65, 81, 160, 187, 199, 19, 128, 55, 126, 254, 43, 59, 141, 169, 224, 77>>>>,
      <<2705, 9,
        <<24, 0, 27, 66, 66, 27, 39, 181, 63, 164, 89, 70, 244, 188, 87, 127,
          145, 214, 255, 64, 140, 77, 92, 1, 75, 85, 121, 220, 235, 63, 122, 12>>>>,
      <<2705, 33,
        <<155, 64, 186, 85, 120, 21, 146, 59, 114, 219, 100, 151, 77, 189, 237, 108,
          254, 177, 55, 72, 131, 93, 163, 194, 54, 118, 194, 9, 158, 233, 22, 14>>>>,
      <<2705, 34,
        <<111, 194, 185, 120, 48, 1, 22, 176, 61, 50, 33, 213, 232, 180, 136, 173,
          138, 36, 150, 101, 34, 113, 162, 64, 165, 156, 249, 242, 56, 124, 76, 101>>>>,
      <<2705, 36,
        <<185, 169, 76, 166, 172, 175, 105, 216, 211, 234, 250, 60, 185, 251, 151, 162,
          210, 251, 249, 216, 5, 4, 205, 210, 101, 99, 162, 50, 59, 168, 44, 200>>>>,
      <<2705, 46,
        <<151, 181, 197, 24, 8, 57, 153, 172, 59, 24, 8, 235, 46, 236, 7, 106,
          124, 1, 53, 250, 175, 8, 136, 76, 147, 32, 188, 53, 251, 201, 182, 8>>>>,
      <<2705, 64,
        <<216, 122, 174, 132, 228, 129, 117, 36, 62, 163, 53, 112, 7, 45, 128, 170,
          197, 86, 94, 218, 121, 4, 23, 5, 212, 243, 236, 227, 142, 11, 32, 142>>>>,
      <<2705, 90,
        <<199, 54, 167, 216, 103, 69, 172, 188, 138, 64, 231, 39, 248, 50, 68, 12,
          161, 13, 244, 163, 207, 165, 157, 194, 18, 52, 50, 230, 230, 45, 207, 69>>>>,
      <<2705, 108,
        <<37, 182, 195, 36, 213, 112, 53, 55, 178, 82, 67, 159, 96, 175, 229, 161,
          28, 87, 96, 198, 158, 115, 95, 252, 154, 190, 63, 149, 171, 136, 225, 131>>>>,
      <<2705, 450,
        <<74, 150, 9, 3, 237, 31, 85, 26, 189, 99, 97, 247, 115, 230, 88, 159,
          142, 118, 68, 245, 136, 232, 94, 237, 135, 46, 76, 249, 33, 128, 181, 36>>>>,
      <<2705, 615,
        <<18, 182, 162, 76, 0, 187, 62, 21, 189, 228, 254, 193, 86, 45, 101, 102,
          61, 173, 20, 225, 83, 194, 20, 199, 138, 40, 31, 36, 207, 62, 177, 50>>>>,
      <<2705, 2008,
        <<183, 212, 192, 174, 17, 107, 12, 224, 55, 185, 0, 151, 75, 107, 39, 184,
          19, 175, 68, 132, 107, 89, 177, 106, 52, 210, 59, 217, 208, 169, 106, 53>>>>,
      <<2819, 2821,
        <<107, 16, 120, 43, 42, 84, 219, 136, 244, 155, 133, 55, 169, 210, 79, 4,
          85, 248, 83, 160, 125, 185, 95, 110, 23, 171, 101, 132, 83, 81, 254, 81>>>>
    >>

NOnes == Len(Sha256Ones)
ZeroId == NOnes + 1
JunkId == NOnes + 2
DigestIds == 1..(JunkId + Len(Sha256Pairs))

\* 32 bytes that are the digest of nothing the process has hashed, standing
\* for every such value.
JunkHash == [junk |-> 0]
JunkBytes == [i \in 1..SHA256_DIGEST_LENGTH |-> 255]

RECURSIVE DigestOf(_)
\* Digest number i as the model writes it.
DigestOf(i) ==
    IF i <= NOnes THEN sha256(Bytes([j \in 1..i |-> 49]))
    ELSE IF i = ZeroId THEN ZeroHash
    ELSE IF i = JunkId THEN JunkHash
    ELSE merkle_hash(DigestOf(Sha256Pairs[i - JunkId][1]),
                     DigestOf(Sha256Pairs[i - JunkId][2]))

\* The 32 bytes of digest number i.
BytesOf(i) ==
    IF i <= NOnes THEN Sha256Ones[i]
    ELSE IF i = ZeroId THEN [j \in 1..SHA256_DIGEST_LENGTH |-> 0]
    ELSE IF i = JunkId THEN JunkBytes
    ELSE Sha256Pairs[i - JunkId][3]

\* Entry j of Sha256Pairs comes before the entry of l and r.
PairBefore(j, l, r) ==
    LET p == Sha256Pairs[j]
        mp == IF p[1] > p[2] THEN p[1] ELSE p[2]
        m == IF l > r THEN l ELSE r
    IN  \/ mp < m
        \/ mp = m /\ p[1] < l
        \/ mp = m /\ p[1] = l /\ p[2] < r

RECURSIVE FindPair(_, _, _, _)
\* The entry of l and r among entries lo .. hi of Sha256Pairs
FindPair(l, r, lo, hi) ==
    IF lo >= hi THEN lo
    ELSE IF PairBefore((lo + hi) \div 2, l, r)
    THEN FindPair(l, r, (lo + hi) \div 2 + 1, hi)
    ELSE FindPair(l, r, lo, (lo + hi) \div 2)

RECURSIVE IdOf(_)
\* The number of digest d, found from the numbers of the two digests it
\* was hashed from.
IdOf(d) ==
    IF d = ZeroHash THEN ZeroId
    ELSE IF d = JunkHash THEN JunkId
    ELSE IF IsBytes(d.sha) THEN Len(d.sha.b)
    ELSE JunkId + FindPair(IdOf(d.sha.l), IdOf(d.sha.r), 1, Len(Sha256Pairs))

\* The number of each digest the model holds the bytes of.
DigestId == [d \in {DigestOf(i) : i \in DigestIds} |-> IdOf(d)]

\* The bytes32 of digest d.
DigestBytes(d) == BytesOf(DigestId[d])

RECURSIVE Xor(_, _)
Xor(a, b) ==
    IF a = 0 THEN b
    ELSE IF b = 0 THEN a
    ELSE ((a + b) % 2) + 2 * Xor(a \div 2, b \div 2)

RECURSIVE Fnv1a(_, _)
\* h ^= byte; h *= prime, over the bytes of s, from h
Fnv1a(h, s) ==
    IF s = <<>> THEN h
    ELSE Fnv1a((Xor(h, Head(s)) * FNV_PRIME) % FnvWord, Tail(s))

\* The loop of mmr_tr_hash over the 32 bytes of each digest, computed once.
Fnv1aOfDigest ==
    [i \in DigestIds |-> Fnv1a(FNV_OFFSET, BytesOf(i))]

\* --------------------------- MMR TRACKER ---------------------------------
mmr_tr_hash(hash, capacity) ==
    IF capacity < 1 THEN 0
    ELSE Fnv1aOfDigest[DigestId[hash]] % capacity

\* The chain of bucket key: item ids, first in chain first.
Bucket(S, key) == S.items[key + 1]

\* tracker->items is NULL: the bucket array is the empty sequence.
NoItems(S) == S.items = <<>>

EmptyWitness == [hash |-> ZeroHash, siblings |-> NULL, n_siblings |-> 0, path |-> 0]

\* One allocation: it fails when it is the f-th of the running call.
Malloc(S, f) == [ok |-> S.na + 1 # f, S |-> [S EXCEPT !.na = @ + 1]]

RECURSIVE Flatten(_, _)
\* The items of buckets 0 .. capacity-1 in the order the rehash loop visits
\* them.
Flatten(buckets, i) ==
    IF i > Len(buckets) THEN <<>>
    ELSE buckets[i] \o Flatten(buckets, i + 1)

\* s last to first
Reverse(s) == [k \in 1..Len(s) |-> s[Len(s) + 1 - k]]

\* The rehash with the key taken under the capacity before the doubling.
RehashOldCapacity(temp, order, nodes, new_capacity) ==
    [b \in 1..new_capacity |->
        Reverse(SelectSeq(order,
                          LAMBDA item :
                              mmr_tr_hash(nodes[item].hash,
                                          new_capacity \div 2) + 1 = b))
            \o temp[b]]

\* The rehash loop over the items of order, first to last:
\*   key = mmr_tr_hash(item->node->hash, new_capacity);
\*   item->next = temp[key]; temp[key] = item
\* Each item goes to the head of the chain of its key, so the loop leaves
\* in chain key the items of that key, the last visited first.
Rehash(temp, order, nodes, new_capacity) ==
    [b \in 1..new_capacity |->
        Reverse(SelectSeq(order,
                          LAMBDA item :
                              mmr_tr_hash(nodes[item].hash,
                                          new_capacity) + 1 = b))
            \o temp[b]]

\* tracker->count <= tracker->capacity * TRACKER_LOAD_THRESH is false
ResizeNeeded(count, capacity) ==
    ~(count * TRACKER_LOAD_DEN <= capacity * TRACKER_LOAD_NUM)

\* mmr_tr_resize from the calloc of the new table on; a is its outcome.
ResizeInto(a, new_capacity) ==
    IF ~a.ok THEN [ok |-> FALSE, S |-> a.S]
    ELSE [ok |-> TRUE,
          S |-> [a.S EXCEPT
                    !.items = Rehash([i \in 1..new_capacity |-> <<>>],
                                     Flatten(@, 1), a.S.nodes, new_capacity),
                    !.capacity = new_capacity]]

mmr_tr_resize(S, f) ==
    IF NoItems(S) THEN [ok |-> FALSE, S |-> S]
    ELSE IF ~ResizeNeeded(S.count, S.capacity) THEN [ok |-> TRUE, S |-> S]
    ELSE ResizeInto(Malloc(S, f), S.capacity * 2)

\* The first item of chain, from position i on, whose node has digest hash.
RECURSIVE ChainGet(_, _, _, _)
ChainGet(S, chain, hash, i) ==
    IF i > Len(chain) THEN NULL
    ELSE IF hashes_equal(hash, S.nodes[chain[i]].hash) THEN chain[i]
    ELSE ChainGet(S, chain, hash, i + 1)

mmr_tr_get(S, hash) ==
    IF NoItems(S) THEN NULL
    ELSE ChainGet(S, Bucket(S, mmr_tr_hash(hash, S.capacity)), hash, 1)

\* Some item of chain holds a parentless node with digest hash.
ChainHasRoot(S, chain, hash) ==
    \E i \in 1..Len(chain) :
        /\ S.nodes[chain[i]].parent = NULL
        /\ hashes_equal(hash, S.nodes[chain[i]].hash)

\* mmr_tr_has_root does not test tracker.items: see mmr_verifyFaults for
\* the call with items NULL.
mmr_tr_has_root(S, hash) ==
    ChainHasRoot(S, Bucket(S, mmr_tr_hash(hash, S.capacity)), hash)

ChainHasPtr(chain, node) == \E i \in 1..Len(chain) : chain[i] = node

mmr_tr_has_ptr(S, node) ==
    ~NoItems(S) /\
    ChainHasPtr(Bucket(S, mmr_tr_hash(S.nodes[node].hash, S.capacity)), node)

\* mmr_tr_insert from the malloc of the item on; a is its outcome.
InsertItem(a, node, key) ==
    IF ~a.ok THEN [ok |-> FALSE, S |-> a.S]
    ELSE [ok |-> TRUE,
          S |-> [a.S EXCEPT !.items[key + 1] = <<node>> \o @,
                            !.cached = Append(@, EmptyWitness),
                            !.count = @ + 1]]

\* mmr_tr_insert after its call of mmr_tr_resize; r is the outcome.
InsertResized(r, node, f) ==
    IF ~r.ok THEN [ok |-> FALSE, S |-> r.S]
    ELSE IF mmr_tr_has_ptr(r.S, node) THEN [ok |-> TRUE, S |-> r.S]
    ELSE InsertItem(Malloc(r.S, f), node,
                    mmr_tr_hash(r.S.nodes[node].hash, r.S.capacity))

\* node is the index of a node just allocated
mmr_tr_insert(S, node, f) ==
    IF NoItems(S) THEN [ok |-> FALSE, S |-> S]
    ELSE InsertResized(mmr_tr_resize(S, f), node, f)

\* ---------------------------- MMR FOREST ---------------------------------
\* malloc(sizeof(MMRNode)) and the digest written into it; the fields not
\* yet assigned are shown as 0.
NewNode(S, hash) ==
    [S EXCEPT !.nodes = Append(@, [hash |-> hash, n_leaves |-> 0,
                                  parent |-> NULL, left |-> NULL,
                                  right |-> NULL, next |-> NULL])]

\* free(node) of the node allocated last
FreeLast(S) == [S EXCEPT !.nodes = SubSeq(@, 1, Len(@) - 1)]

\* create_leaf after mmr_tr_insert; ins is its outcome, node the new leaf.
LeafInserted(ins, node) ==
    IF ~ins.ok THEN [ok |-> FALSE, S |-> FreeLast(ins.S), node |-> NULL]
    ELSE [ok |-> TRUE, S |-> [ins.S EXCEPT !.nodes[node].n_leaves = 1],
          node |-> node]

\* create_leaf from the malloc of the node on; a is its outcome.
LeafAlloc(a, e, f) ==
    IF ~a.ok THEN [ok |-> FALSE, S |-> a.S, node |-> NULL]
    ELSE LeafInserted(mmr_tr_insert(NewNode(a.S, sha256(e)),
                                    Len(a.S.nodes) + 1, f),
                      Len(a.S.nodes) + 1)

create_leaf(S, e, f) ==
    IF MsgLen(e) < 1 THEN [ok |-> FALSE, S |-> S, node |-> NULL]
    ELSE LeafAlloc(Malloc(S, f), e, f)

\* merge_nodes doubling the n_leaves of the left child as well.
MergeInsertedGrowsLeft(ins, left, right, result) ==
    IF ~ins.ok THEN [ok |-> FALSE, S |-> FreeLast(ins.S), node |-> NULL]
    ELSE [ok |-> TRUE,
          S |-> [ins.S EXCEPT
                    !.nodes[result].n_leaves = ins.S.nodes[left].n_leaves * 2,
                    !.nodes[left].n_leaves = @ * 2,
                    !.nodes[left].parent = result,
                    !.nodes[right].parent = result,
                    !.nodes[result].left = left,
                    !.nodes[result].right = right,
                    !.nodes[left].next = NULL,
                    !.nodes[right].next = NULL],
          node |-> result]

\* merge_nodes after mmr_tr_insert; ins is its outcome, result the parent.
MergeInserted(ins, left, right, result) ==
    IF ~ins.ok THEN [ok |-> FALSE, S |-> FreeLast(ins.S), node |-> NULL]
    ELSE [ok |-> TRUE,
          S |-> [ins.S EXCEPT
                    !.nodes[result].n_leaves = ins.S.nodes[left].n_leaves * 2,
                    !.nodes[left].parent = result,
                    !.nodes[right].parent = result,
                    !.nodes[result].left = left,
                    !.nodes[result].right = right,
                    !.nodes[left].next = NULL,
                    !.nodes[right].next = NULL],
          node |-> result]

\* merge_nodes hashing right before left.
MergeAllocSwapped(a, left, right, f) ==
    IF ~a.ok THEN [ok |-> FALSE, S |-> a.S, node |-> NULL]
    ELSE MergeInserted(
             mmr_tr_insert(NewNode(a.S, merkle_hash(a.S.nodes[right].hash,
                                                    a.S.nodes[left].hash)),
                           Len(a.S.nodes) + 1, f),
             left, right, Len(a.S.nodes) + 1)

\* merge_nodes from the malloc of the parent on; a is its outcome.
MergeAlloc(a, left, right, f) ==
    IF ~a.ok THEN [ok |-> FALSE, S |-> a.S, node |-> NULL]
    ELSE MergeInserted(
             mmr_tr_insert(NewNode(a.S, merkle_hash(a.S.nodes[left].hash,
                                                    a.S.nodes[right].hash)),
                           Len(a.S.nodes) + 1, f),
             left, right, Len(a.S.nodes) + 1)

merge_nodes(S, left, right, f) ==
    IF left = NULL \/ right = NULL THEN [ok |-> FALSE, S |-> S, node |-> NULL]
    ELSE IF S.nodes[left].n_leaves # S.nodes[right].n_leaves
    THEN [ok |-> FALSE, S |-> S, node |-> NULL]
    ELSE MergeAlloc(Malloc(S, f), left, right, f)

\* -------------------------- MMR ACCUMULATOR ------------------------------
RECURSIVE AddLoop(_, _, _)
RECURSIVE AddMerged(_, _, _)

\* The loop of mmr_add as an if: one merge, then the splice.
AddMergedOnce(m, next, f) ==
    IF ~m.ok THEN [ok |-> FALSE, S |-> m.S]
    ELSE [ok |-> TRUE,
          S |-> [m.S EXCEPT !.nodes[m.node].next = next, !.head = m.node]]

\* The loop of mmr_add without the step *cur = next.
AddMergedKeepsHead(m, next, f) ==
    IF ~m.ok THEN [ok |-> FALSE, S |-> m.S]
    ELSE AddLoop(m.S, m.node, f)

\* The loop of mmr_add after merge_nodes; m is its outcome, next the root
\* after *cur.
AddMerged(m, next, f) ==
    IF ~m.ok THEN [ok |-> FALSE, S |-> m.S]
    ELSE AddLoop([m.S EXCEPT !.head = next], m.node, f)

\* mmr_add without its loop: the leaf is spliced in at head.
AddLoopNoMerge(S, node, f) ==
    [ok |-> TRUE,
     S |-> [S EXCEPT !.nodes[node].next = S.head, !.head = node]]

\* The loop of mmr_add passing the new node as left and *cur as right.
AddLoopNewOnLeft(S, node, f) ==
    IF S.head # NULL /\ S.nodes[S.head].n_leaves = S.nodes[node].n_leaves
    THEN AddMerged(merge_nodes(S, node, S.head, f), S.nodes[S.head].next, f)
    ELSE [ok |-> TRUE,
          S |-> [S EXCEPT !.nodes[node].next = S.head, !.head = node]]

\* The loop of mmr_add and the splice after it; cur stays &acc->head.
AddLoop(S, node, f) ==
    IF S.head # NULL /\ S.nodes[S.head].n_leaves = S.nodes[node].n_leaves
    THEN AddMerged(merge_nodes(S, S.head, node, f), S.nodes[S.head].next, f)
    ELSE [ok |-> TRUE,
          S |-> [S EXCEPT !.nodes[node].next = S.head, !.head = node]]

\* mmr_add after create_leaf; c is its outcome.
AddLeaf(c, f) ==
    IF ~c.ok THEN [ok |-> FALSE, S |-> c.S]
    ELSE AddLoop(c.S, c.node, f)

mmr_add(S, e, f) == AddLeaf(create_leaf(S, e, f), f)

Pow2(n) == 2 ^ n

\* (path >> i) & 1
PathBit(path, i) == (path \div Pow2(i)) % 2

\* The fold step with the two operand orders exchanged.
FoldStepSwapped(hash, sibling, sibling_order) ==
    IF sibling_order = MMR_SIBLING_RIGHT
    THEN merkle_hash(sibling, hash)
    ELSE merkle_hash(hash, sibling)

\* One step of the fold of mmr_verify: the operand order is chosen by the
\* path bit of the level.
FoldStep(hash, sibling, sibling_order) ==
    IF sibling_order = MMR_SIBLING_RIGHT
    THEN merkle_hash(hash, sibling)
    ELSE merkle_hash(sibling, hash)

RECURSIVE VerifyLoop(_, _, _, _)
\* The for loop of mmr_verify from level i with the running digest hash,
\* and the final test after it.
VerifyLoop(S, w, hash, i) ==
    IF i >= w.n_siblings THEN mmr_tr_has_root(S, hash)
    ELSE LET h == FoldStep(hash, w.siblings[i + 1], PathBit(w.path, i))
         IN  IF mmr_tr_has_root(S, h) THEN TRUE
             ELSE VerifyLoop(S, w, h, i + 1)

\* mmr_verify with the bound on path off by one.
mmr_verifyPathOffByOne(S, w) ==
    IF w.n_siblings > 0 /\ w.isnull THEN FALSE
    ELSE IF w.n_siblings > WITNESS_MAX_SIBLINGS THEN FALSE
    ELSE IF w.n_siblings < 31 /\ w.path > Pow2(w.n_siblings) THEN FALSE
    ELSE VerifyLoop(S, w, w.hash, 0)

\* w is the witness as mmr_verify reads it: siblings is the content of the
\* buffer w->siblings points to, isnull tells that the pointer is NULL.
\* 1ULL << n_siblings is a 64-bit value; the paths of the model are below
\* 2^31, so the bound on path can only reject when n_siblings < 31.
mmr_verify(S, w) ==
    IF w.n_siblings > 0 /\ w.isnull THEN FALSE
    ELSE IF w.n_siblings > WITNESS_MAX_SIBLINGS THEN FALSE
    ELSE IF w.n_siblings < 31 /\ w.path >= Pow2(w.n_siblings) THEN FALSE
    ELSE VerifyLoop(S, w, w.hash, 0)

\* mmr_verify reaches mmr_tr_has_root, at the first level or after the
\* loop, unless one of its three tests returns before; mmr_tr_has_root
\* reads tracker.items[key] with no test of items, and with items NULL the
\* read is of an address in the first page: the process dies.
mmr_verifyFaults(S, w) ==
    /\ NoItems(S)
    /\ ~(w.n_siblings > 0 /\ w.isnull)
    /\ ~(w.n_siblings > WITNESS_MAX_SIBLINGS)
    /\ ~(w.n_siblings < 31 /\ w.path >= Pow2(w.n_siblings))

RECURSIVE WitnessWalk(_, _, _, _, _)
\* The while loop of mmr_witness: from node up the parent links.
WitnessWalk(S, node, level, path, siblings) ==
    IF S.nodes[node].parent = NULL
    THEN [ok |-> TRUE, level |-> level, path |-> path, siblings |-> siblings]
    ELSE IF level >= WITNESS_MAX_SIBLINGS
    THEN [ok |-> FALSE, level |-> level, path |-> path, siblings |-> siblings]
    ELSE LET parent == S.nodes[node].parent
         IN  IF S.nodes[parent].left = node
             THEN WitnessWalk(S, parent, level + 1, path + Pow2(level),
                      Append(siblings, S.nodes[S.nodes[parent].right].hash))
             ELSE IF S.nodes[parent].right = node
             THEN WitnessWalk(S, parent, level + 1, path,
                      Append(siblings, S.nodes[S.nodes[parent].left].hash))
             ELSE [ok |-> FALSE, level |-> level, path |-> path,
                   siblings |-> siblings]

\* free(p) on the heap of siblings buffers
Free(heap, p) == IF p = NULL THEN heap ELSE [heap EXCEPT ![p].alive = FALSE]

\* mmr_witness writing the witness into the cache of every item.
WitnessStoreAllItems(S, heap, hash, item, walk) ==
    IF ~walk.ok
    THEN [ok |-> FALSE, w |-> EmptyWitness, S |-> S,
          heap |-> Append(heap, [alive |-> FALSE, data |-> <<>>])]
    ELSE [ok |-> TRUE,
          w |-> [hash |-> hash, siblings |-> NULL, n_siblings |-> walk.level,
                 path |-> walk.path],
          S |-> [S EXCEPT !.cached =
                    [i \in 1..Len(S.cached) |->
                        [hash |-> hash, siblings |-> NULL,
                         n_siblings |-> walk.level, path |-> walk.path]]],
          heap |-> Append(heap, [alive |-> FALSE, data |-> <<>>])]

\* mmr_witness from the end of the walk on: the witness is written to *w,
\* the buffer the item cached before is freed, the item caches *w.  The
\* buffer of a walk that failed or climbed no level is freed at once and
\* enters the heap as freed.
WitnessStore(S, heap, hash, item, walk) ==
    IF ~walk.ok
    THEN [ok |-> FALSE, w |-> EmptyWitness, S |-> S,
          heap |-> Append(heap, [alive |-> FALSE, data |-> <<>>])]
    ELSE IF walk.level = 0
    THEN [ok |-> TRUE,
          w |-> [hash |-> hash, siblings |-> NULL, n_siblings |-> 0,
                 path |-> walk.path],
          S |-> [S EXCEPT !.cached[item] =
                    [hash |-> hash, siblings |-> NULL, n_siblings |-> 0,
                     path |-> walk.path]],
          heap |-> Free(Append(heap, [alive |-> FALSE, data |-> <<>>]),
                        S.cached[item].siblings)]
    ELSE [ok |-> TRUE,
          w |-> [hash |-> hash, siblings |-> Len(heap) + 1,
                 n_siblings |-> walk.level, path |-> walk.path],
          S |-> [S EXCEPT !.cached[item] =
                    [hash |-> hash, siblings |-> Len(heap) + 1,
                     n_siblings |-> walk.level, path |-> walk.path]],
          heap |-> Free(Append(heap, [alive |-> TRUE, data |-> walk.siblings]),
                        S.cached[item].siblings)]

\* mmr_witness after mmr_tr_get; item is what it found.
WitnessItem(S, heap, hash, item) ==
    IF item = NULL
    THEN [ok |-> FALSE, w |-> EmptyWitness, S |-> S, heap |-> heap]
    ELSE WitnessStore(S, heap, hash, item, WitnessWalk(S, item, 0, 0, <<>>))

\* mmr_witness on accumulator S and the heap of siblings buffers.  The
\* result holds the witness written to *w, the accumulator and the heap.
mmr_witness(S, heap, e) ==
    IF MsgLen(e) < 1
    THEN [ok |-> FALSE, w |-> EmptyWitness, S |-> S, heap |-> heap]
    ELSE WitnessItem(S, heap, sha256(e), mmr_tr_get(S, sha256(e)))

\* ------------------------------ destroy ----------------------------------
\* The siblings pointers destroy passes to free: those of the items in order
\* that are not NULL.
CachedBuffers(S, order) ==
    SelectSeq([i \in 1..Len(order) |-> S.cached[order[i]].siblings],
              LAMBDA p : p # NULL)

\* The heap after free of every pointer of ps.
FreeAll(heap, ps) ==
    [p \in 1..Len(heap) |->
        IF \E i \in 1..Len(ps) : ps[i] = p
        THEN [heap[p] EXCEPT !.alive = FALSE] ELSE heap[p]]

\* mmr_tr_destroy without the free of the cached siblings.
mmr_tr_destroyKeepsWitness(S, heap, order) ==
    [S |-> [S EXCEPT !.nodes = <<>>, !.cached = <<>>, !.items = <<>>,
                     !.capacity = 0, !.count = 0],
     heap |-> heap,
     freed |-> [nodes |-> order, items |-> order, bufs |-> <<>>,
                arrays |-> IF NoItems(S) THEN 0 ELSE 1]]

\* mmr_tr_destroy; order is the items in the order the loops visit them.
\* freed lists what was passed to free: per item its node, its cached
\* siblings buffer and the item itself, and at the end the bucket array.
\* With items NULL there is no item and nothing is freed.
mmr_tr_destroy(S, heap, order) ==
    [S |-> [S EXCEPT !.nodes = <<>>, !.cached = <<>>, !.items = <<>>,
                     !.capacity = 0, !.count = 0],
     heap |-> FreeAll(heap, CachedBuffers(S, order)),
     freed |-> [nodes |-> order, items |-> order,
                bufs |-> CachedBuffers(S, order),
                arrays |-> IF NoItems(S) THEN 0 ELSE 1]]

mmr_destroy(S, heap) ==
    mmr_tr_destroy([S EXCEPT !.head = NULL], heap, Flatten(S.items, 1))

\* ------------------------------- state -----------------------------------
VARIABLES
    acc,    \* the MMRAccumulator: head, the nodes, the tracker
    bufs,   \* the heap of siblings buffers: [alive, data]
    held,   \* the MMRWitness structs the caller was handed, in call order
    epoch,  \* per held witness: the number of mmr_add calls made before it
    ret,    \* the call that has just returned and what it returned
    hist    \* history: adds that succeeded, adds that failed, the length
            \* of the longest string passed to mmr_add, and per held
            \* witness the node mmr_tr_get found for it

vars == <<acc, bufs, held, epoch, ret, hist>>

NoRet == [op |-> "none"]

\* mmr_tr_init: the memset, the capacity, and the calloc of the bucket
\* array, whose result is stored untested; ok tells that it succeeded.
mmr_tr_init(ok) ==
    [items |-> IF ok THEN [i \in 1..TRACKER_MIN_CAPACITY |-> <<>>] ELSE <<>>,
     capacity |-> TRACKER_MIN_CAPACITY, count |-> 0]

\* mmr_init(&acc) in which the f-th allocation fails (0: none does)
mmr_init(f) ==
    [head |-> NULL, nodes |-> <<>>,
     items |-> mmr_tr_init(f # 1).items,
     capacity |-> mmr_tr_init(f # 1).capacity,
     count |-> mmr_tr_init(f # 1).count, cached |-> <<>>, na |-> 0]

\* The caller's state after mmr_init(&acc).
Constructed(f) ==
    /\ acc = mmr_init(f)
    /\ bufs = <<>>
    /\ held = <<>>
    /\ epoch = <<>>
    /\ ret = NoRet
    /\ hist = [added |-> 0, failed |-> 0, buff |-> 0, leaf |-> <<>>]

\* Every allocation succeeds.
Init == Constructed(0)

\* The calloc of mmr_tr_init may fail.
InitNoMem == \E f \in 0..1 : Constructed(f)

Idle == ret.op = "none"

\* ------------------------------ the caller -------------------------------
\* main adds "1", "11", "111", ...: buff after k strcat calls.
Ones(k) == Bytes([i \in 1..k |-> 49])
Empty == Bytes(<<>>)

Leaves(S) == {i \in 1..Len(S.nodes) : S.nodes[i].left = NULL}
LeafMsgs(S) == {S.nodes[i].hash.sha : i \in Leaves(S)}
ShortLens(S) == {Len(m.b) : m \in {x \in LeafMsgs(S) : IsBytes(x)}}
MaxOf(ns) == IF ns = {} THEN 0 ELSE CHOOSE n \in ns : \A m \in ns : m <= n

\* The strings of the leaves the accumulator holds.
Known(S) == {Ones(k) : k \in ShortLens(S)}

\* The next string of main's sequence: strcat makes buff one byte longer
\* before every call of mmr_add, whatever the call before returned.
Fresh == Ones(hist.buff + 1)

\* strlen(buff) after a call that passed e
BuffLen(e) ==
    IF IsBytes(e) /\ Len(e.b) > hist.buff THEN Len(e.b) ELSE hist.buff

Calls == hist.added + hist.failed

\* The nodes the tracker holds; the root list from node, head first.
Tracked(S) ==
    UNION {{S.items[b][i] : i \in 1..Len(S.items[b])} : b \in 1..Len(S.items)}

RECURSIVE RootList(_, _)
RootList(S, node) ==
    IF node = NULL THEN <<>>
    ELSE <<node>> \o RootList(S, S.nodes[node].next)

\* The root list, every node and its links, and the set of tracked nodes
\* are the same in S and T.
SameForest(S, T) ==
    /\ S.head = T.head
    /\ S.nodes = T.nodes
    /\ Tracked(S) = Tracked(T)

\* What the caller sees of mmr_add: r is the outcome, S the accumulator;
\* merges is the number of nodes the call created besides the leaf.
AddReturns(r, S, e) ==
    /\ acc' = S
    /\ ret' = [op |-> "add", ok |-> r.ok, e |-> e,
               unchanged |-> SameForest(S, acc),
               merges |-> Len(S.nodes) - Len(acc.nodes) - 1]
    /\ hist' = IF r.ok
               THEN [hist EXCEPT !.added = @ + 1, !.buff = BuffLen(e)]
               ELSE [hist EXCEPT !.failed = @ + 1, !.buff = BuffLen(e)]
    /\ UNCHANGED <<bufs, held, epoch>>

AddDone(r, e) == AddReturns(r, [r.S EXCEPT !.na = 0], e)

\* mmr_add(&acc, e, n); the f-th allocation of the call fails (0: none does)
DoAdd(e, f) == AddDone(mmr_add(acc, e, f), e)

AddCall(e, f, max) ==
    /\ Idle
    /\ Calls < max
    /\ DoAdd(e, f)

\* The caller adds the next string, or one it has added before.
Add(e) == AddCall(e, 0, MaxAdds)

\* mmr_add with n = 0
AddEmpty ==
    /\ Idle
    /\ hist.failed = 0
    /\ DoAdd(Empty, 0)

\* What the caller sees of mmr_witness: r is the outcome.
WitnessReturns(r, e) ==
    /\ acc' = r.S
    /\ bufs' = r.heap
    /\ held' = IF r.ok THEN Append(held, r.w) ELSE held
    /\ epoch' = IF r.ok THEN Append(epoch, Calls) ELSE epoch
    /\ ret' = [op |-> "witness", ok |-> r.ok, e |-> e,
               unchanged |-> (r.S = acc /\ r.heap = bufs)]
    /\ hist' = IF r.ok
               THEN [hist EXCEPT !.leaf = Append(@, mmr_tr_get(acc, sha256(e)))]
               ELSE hist

\* mmr_witness(&acc, &w, e, n) into a fresh MMRWitness of the caller
WitnessCall(e, max) ==
    /\ Idle
    /\ Len(held) < max
    /\ WitnessReturns(mmr_witness(acc, bufs, e), e)

\* The caller holds no proof of e.
NoProofOf(e) == \A k \in 1..Len(held) : held[k].hash # sha256(e)

\* The caller asks for the proof of an element it holds no proof of.
Witness(e) == NoProofOf(e) /\ WitnessCall(e, MaxWitness)

\* The witness as mmr_verify reads it, the buffer holding data.
Resolve(w, data) ==
    [hash |-> w.hash, siblings |-> data, isnull |-> w.siblings = NULL,
     n_siblings |-> w.n_siblings, path |-> w.path]

Dangling(w) == w.siblings # NULL /\ ~bufs[w.siblings].alive

\* What 32 bytes of the heap can hold: the allocator hands the chunk of a
\* freed buffer to a later malloc, so the bytes are those of a digest the
\* process has stored since (in a node or in a siblings buffer: the digest
\* of a node in both cases), zeros, or anything else.
HeapDigests(S) ==
    {S.nodes[i].hash : i \in 1..Len(S.nodes)} \cup {ZeroHash, JunkHash}

\* What the reads of a freed buffer that held old can give: per digest,
\* one that was left there or one the heap holds now.
Clobbered(S, old) ==
    [1..Len(old) -> {old[i] : i \in 1..Len(old)} \cup HeapDigests(S)]

\* What a read through w->siblings can give.  A read of a freed buffer is
\* undefined.
Reads(w) ==
    IF w.siblings = NULL THEN {<<>>}
    ELSE IF bufs[w.siblings].alive THEN {bufs[w.siblings].data}
    ELSE Clobbered(acc, bufs[w.siblings].data)

\* What the caller sees of mmr_verify; crashed tells that the process
\* died in the call.
VerifyReturns(w, k, kind, dangling) ==
    /\ ret' = [op |-> "verify",
               ok |-> ~mmr_verifyFaults(acc, w) /\ mmr_verify(acc, w),
               crashed |-> mmr_verifyFaults(acc, w), k |-> k,
               kind |-> kind, dangling |-> dangling, w |-> w]
    /\ UNCHANGED <<acc, bufs, held, epoch, hist>>

\* mmr_verify(&acc, &held[k])
VerifyHeld(k) ==
    /\ Idle
    /\ k \in 1..Len(held)
    /\ \E data \in Reads(held[k]) :
          VerifyReturns(Resolve(held[k], data), k, "held", Dangling(held[k]))

\* A process that died makes no further call.
Crashed == ret.op \in {"witness_nomem", "verify"} /\ ret.crashed

\* The caller goes on after a call has returned.
Return ==
    /\ ~Idle
    /\ ~Crashed
    /\ ret' = NoRet
    /\ UNCHANGED <<acc, bufs, held, epoch, hist>>

\* The strings the caller may pass: those it passed before and the next
\* one.
Strings == {Ones(k) : k \in 1..(hist.buff + 1)}

Next ==
    \/ \E e \in Strings : Add(e)
    \/ AddEmpty
    \/ \E e \in Strings : Witness(e)
    \/ \E k \in 1..MaxWitness : VerifyHeld(k)
    \/ Return

Spec == Init /\ [][Next]_vars

\* ------------------ the caller asks for a proof again --------------------
TwiceAdd(e) == AddCall(e, 0, MaxTwiceAdds)
TwiceWitness(e) == WitnessCall(e, MaxTwiceWitness)

NextTwice ==
    \/ \E e \in Strings : TwiceAdd(e)
    \/ \E e \in Strings : TwiceWitness(e)
    \/ \E k \in 1..MaxTwiceWitness : VerifyHeld(k)
    \/ Return

SpecTwice == Init /\ [][NextTwice]_vars

\* ------------------- the caller tampers with a proof ---------------------
\* The 64-byte element made of the digests of "11" and "1".
E64 == Cat(sha256(Ones(2)), sha256(Ones(1)))

\* The digests the caller can put into a proof: those of the tracked nodes,
\* that of a string never added, and zeros.
Pool(S) ==
    {S.nodes[i].hash : i \in 1..Len(S.nodes)} \cup {sha256(Fresh), ZeroHash}

RECURSIVE FoldUpTo(_, _, _, _)
\* The digest after folding levels i .. n-1 of w into hash
FoldUpTo(w, hash, i, n) ==
    IF i >= n THEN hash
    ELSE FoldUpTo(w, FoldStep(hash, w.siblings[i + 1], PathBit(w.path, i)),
                  i + 1, n)

\* path with bit i flipped
FlipBit(path, i) ==
    IF PathBit(path, i) = 1 THEN path - Pow2(i) ELSE path + Pow2(i)

\* The proofs the caller can make of w by one change.
Tampered(S, w) ==
    {[kind |-> "hash", w |-> [w EXCEPT !.hash = x]] :
        x \in Pool(S) \ {w.hash}}
    \cup
    {[kind |-> "sibling", w |-> [w EXCEPT !.siblings[ix[1]] = ix[2]]] :
        ix \in {jx \in (1..w.n_siblings) \X Pool(S) : w.siblings[jx[1]] # jx[2]}}
    \cup
    {[kind |-> "path", w |-> [w EXCEPT !.path = FlipBit(@, i)]] :
        i \in 0..w.n_siblings}
    \cup
    {[kind |-> "extend",
      w |-> [w EXCEPT !.siblings = Append(@, bx[2]), !.isnull = FALSE,
                      !.n_siblings = @ + 1, !.path = @ + bx[1] * Pow2(w.n_siblings)]] :
        bx \in {0, 1} \X Pool(S)}
    \cup
    {[kind |-> "lift",
      w |-> [w EXCEPT !.hash = FoldUpTo(w, @, 0, j),
                      !.siblings = SubSeq(@, j + 1, w.n_siblings),
                      !.isnull = (j = w.n_siblings),
                      !.n_siblings = @ - j,
                      !.path = @ \div Pow2(j)]] :
        j \in 1..w.n_siblings}
    \cup
    {[kind |-> "long",
      w |-> [w EXCEPT !.siblings = [i \in 1..(WITNESS_MAX_SIBLINGS + 1) |->
                                      IF i <= w.n_siblings THEN @[i]
                                      ELSE ZeroHash],
                      !.isnull = FALSE,
                      !.n_siblings = WITNESS_MAX_SIBLINGS + 1]]}
    \cup
    {[kind |-> "null",
      w |-> [w EXCEPT !.siblings = <<>>, !.isnull = TRUE,
                      !.n_siblings = IF @ = 0 THEN 1 ELSE @]]}

\* mmr_verify of a changed copy of held[k], made while the accumulator is as
\* it was when held[k] was returned
VerifyTampered(k) ==
    /\ Idle
    /\ k \in 1..Len(held)
    /\ ~Dangling(held[k])
    /\ epoch[k] = Calls
    /\ \E data \in Reads(held[k]) :
          \E t \in Tampered(acc, Resolve(held[k], data)) :
              VerifyReturns(t.w, k, t.kind, FALSE)

ForgeAdd(e) == AddCall(e, 0, MaxForgeAdds)
ForgeWitness(e) == NoProofOf(e) /\ WitnessCall(e, MaxForgeWitness)

NextForge ==
    \/ \E e \in Strings \cup {E64} : ForgeAdd(e)
    \/ \E e \in Strings \cup {E64} : ForgeWitness(e)
    \/ \E k \in 1..MaxForgeWitness : VerifyHeld(k)
    \/ \E k \in 1..MaxForgeWitness : VerifyTampered(k)
    \/ Return

SpecForge == Init /\ [][NextForge]_vars

\* ------------------ proofs of what was never added -----------------------
\* The 64 bytes SHA256("1") || SHA256("11"): what merge_nodes hashes when
\* "1" and "11" are the first two elements added.
PairElement == Cat(sha256(Ones(1)), sha256(Ones(2)))

MissAdd(e) == AddCall(e, 0, MaxMissAdds)
MissWitness(e) == WitnessCall(e, MaxMissWitness)

NextMiss ==
    \/ \E e \in Strings : MissAdd(e)
    \/ \E e \in Strings \cup {PairElement, Empty} : MissWitness(e)
    \/ Return

SpecMiss == Init /\ [][NextMiss]_vars

\* ------------------------- the caller destroys ---------------------------
\* What the caller's allocation counter sees of mmr_destroy: what was
\* allocated when it was called and what it freed.
DestroyReturns(r) ==
    /\ acc' = r.S
    /\ bufs' = r.heap
    /\ ret' = [op |-> "destroy", freed |-> r.freed,
               nodes |-> Len(acc.nodes), items |-> Len(acc.cached),
               arrays |-> IF NoItems(acc) THEN 0 ELSE 1,
               live |-> {p \in 1..Len(bufs) : bufs[p].alive},
               dead |-> {p \in 1..Len(bufs) : ~bufs[p].alive}]
    /\ UNCHANGED <<held, epoch, hist>>

\* mmr_destroy(&acc)
Destroy ==
    /\ Idle
    /\ DestroyReturns(mmr_destroy(acc, bufs))

\* The accumulator must not be used after mmr_destroy.
Resume == ret.op # "destroy" /\ Return

DestroyAdd(e, f) == AddCall(e, f, MaxDestroyAdds)
DestroyWitness(e) == WitnessCall(e, MaxDestroyWitness)

NextDestroy ==
    \/ \E e \in Strings : \E f \in 0..MaxDestroyFailAt : DestroyAdd(e, f)
    \/ \E e \in Strings : DestroyWitness(e)
    \/ Destroy
    \/ Resume

SpecDestroy == InitNoMem /\ [][NextDestroy]_vars

\* ------------------ calloc fails inside mmr_witness ----------------------
\* What a build can do at memcpy(siblings[level], ...) with siblings NULL:
\* the process dies at the write, or the write is lost and the call goes
\* on to realloc(NULL, ...), which hands out a buffer of unspecified
\* content or fails in its turn.
NullWrite == {"crash", "junk", "null"}

\* The witness mmr_witness writes to *w after a walk of NULL siblings.
NoMemWitness(heap, hash, walk, ub) ==
    [hash |-> hash,
     siblings |-> IF walk.level > 0 /\ ub = "junk" THEN Len(heap) + 1 ELSE NULL,
     n_siblings |-> walk.level, path |-> walk.path]

\* The heap after the walk: realloc(NULL, level * sizeof(bytes32)) that
\* succeeds allocates; free(NULL) and a realloc that fails change nothing.
NoMemHeap(heap, walk, ub) ==
    IF walk.level > 0 /\ ub = "junk"
    THEN Append(heap, [alive |-> TRUE,
                       data |-> [i \in 1..walk.level |-> JunkHash]])
    ELSE heap

\* mmr_witness from the calloc on when calloc returns NULL; the pointer is
\* not tested.  A walk of no level writes nothing through it.
WitnessStoreNoMem(S, heap, hash, item, walk, ub) ==
    IF walk.level > 0 /\ ub = "crash"
    THEN [ok |-> FALSE, crashed |-> TRUE, w |-> EmptyWitness, S |-> S,
          heap |-> heap]
    ELSE IF ~walk.ok
    THEN [ok |-> FALSE, crashed |-> FALSE, w |-> EmptyWitness, S |-> S,
          heap |-> heap]
    ELSE [ok |-> TRUE, crashed |-> FALSE,
          w |-> NoMemWitness(heap, hash, walk, ub),
          S |-> [S EXCEPT !.cached[item] = NoMemWitness(heap, hash, walk, ub)],
          heap |-> Free(NoMemHeap(heap, walk, ub), S.cached[item].siblings)]

WitnessItemNoMem(S, heap, hash, item, ub) ==
    IF item = NULL
    THEN [ok |-> FALSE, crashed |-> FALSE, w |-> EmptyWitness, S |-> S,
          heap |-> heap]
    ELSE WitnessStoreNoMem(S, heap, hash, item,
                           WitnessWalk(S, item, 0, 0, <<>>), ub)

\* mmr_witness in a call whose calloc returns NULL
mmr_witnessNoMem(S, heap, e, ub) ==
    IF MsgLen(e) < 1
    THEN [ok |-> FALSE, crashed |-> FALSE, w |-> EmptyWitness, S |-> S,
          heap |-> heap]
    ELSE WitnessItemNoMem(S, heap, sha256(e), mmr_tr_get(S, sha256(e)), ub)

\* What the caller sees of that call; found is the item mmr_tr_get gave,
\* depth the number of parents above its node.
WitnessNoMemReturns(r, e, found) ==
    /\ acc' = r.S
    /\ bufs' = r.heap
    /\ held' = IF r.ok THEN Append(held, r.w) ELSE held
    /\ epoch' = IF r.ok THEN Append(epoch, Calls) ELSE epoch
    /\ ret' = [op |-> "witness_nomem", ok |-> r.ok, crashed |-> r.crashed,
               e |-> e, found |-> found,
               depth |-> IF found = NULL THEN 0
                         ELSE WitnessWalk(acc, found, 0, 0, <<>>).level,
               unchanged |-> (r.S = acc /\ r.heap = bufs)]
    /\ hist' = IF r.ok THEN [hist EXCEPT !.leaf = Append(@, found)] ELSE hist

WitnessNoMem(e, ub) ==
    /\ Idle
    /\ Len(held) < MaxNoMemWitness
    /\ WitnessNoMemReturns(mmr_witnessNoMem(acc, bufs, e, ub), e,
                           mmr_tr_get(acc, sha256(e)))

GoOn == Return

NoMemAdd(e) == AddCall(e, 0, MaxNoMemAdds)
NoMemWitnessOk(e) == WitnessCall(e, MaxNoMemWitness)

\* mmr_verify(&acc, &w) of an MMRWitness the caller has zeroed
VerifyZeroed ==
    /\ Idle
    /\ VerifyReturns(Resolve(EmptyWitness, <<>>), 0, "zeroed", FALSE)

NextNoMem ==
    \/ \E e \in Strings : NoMemAdd(e)
    \/ \E e \in Strings : NoMemWitnessOk(e)
    \/ \E e \in Strings : \E ub \in NullWrite : WitnessNoMem(e, ub)
    \/ VerifyZeroed
    \/ GoOn

SpecNoMem == InitNoMem /\ [][NextNoMem]_vars

\* ----------------------- allocations that fail ---------------------------
\* mmr_add in which the f-th allocation fails
FailAdd(e, f) ==
    /\ AddCall(e, f, MaxFailAdds)
    /\ ~ret'.ok

OkAdd(e) == AddCall(e, 0, MaxFailAdds)

NextFail ==
    \/ \E e \in Strings : OkAdd(e)
    \/ \E e \in Strings : \E f \in 1..MaxFailAt : FailAdd(e, f)
    \/ Return

SpecFail == InitNoMem /\ [][NextFail]_vars

\* ------------------------- a growing tracker -----------------------------
\* The caller adds the next string of main's sequence, or "1" once more.
GrowStrings ==
    {Fresh} \cup (IF hist.added < MaxGrowRepeats THEN {Ones(1)} ELSE {})

Grow(e) == AddCall(e, 0, MaxGrow)

NextGrow ==
    \/ \E e \in GrowStrings : Grow(e)
    \/ Return

SpecGrow == Init /\ [][NextGrow]_vars

\* ------------------- the caller feeds its input again --------------------
\* The strings the caller has passed a second time.
Again == Calls - hist.buff

\* The caller adds the next string of main's sequence until it starts over
\* with "1", "11", ...: the strings it has added, in their order.
StaleStrings ==
    (IF Again = 0 THEN {Fresh} ELSE {})
    \cup (IF Again < hist.buff THEN {Ones(Again + 1)} ELSE {})

StaleAdd(e) == AddCall(e, 0, MaxStaleAdds)
StaleWitness(e) == NoProofOf(e) /\ WitnessCall(e, MaxStaleWitness)

NextStale ==
    \/ \E e \in StaleStrings : StaleAdd(e)
    \/ \E e \in Strings : StaleWitness(e)
    \/ \E k \in 1..MaxStaleWitness : VerifyHeld(k)
    \/ Return

SpecStale == Init /\ [][NextStale]_vars


\* ------------------------------- claims ----------------------------------
\* The n_leaves of the roots, head first.
RootSizes == [i \in 1..Len(RootList(acc, acc.head)) |->
                 acc.nodes[RootList(acc, acc.head)[i]].n_leaves]

\* The powers of two that are set bits of n (n < 2^31)
SetBits(n) == {Pow2(i) : i \in {j \in 0..30 : (n \div Pow2(j)) % 2 = 1}}

\* d is the digest of a node of the root list
IsRootDigest(d) ==
    \E i \in 1..Len(RootList(acc, acc.head)) :
        acc.nodes[RootList(acc, acc.head)[i]].hash = d

\* d is the digest of a node without parent
IsParentlessDigest(d) ==
    \E i \in 1..Len(acc.nodes) :
        acc.nodes[i].parent = NULL /\ acc.nodes[i].hash = d

\* mmr_verify has just returned for a proof that no add has followed
VerifiedFresh == ret.op = "verify" /\ epoch[ret.k] = Calls /\ ~ret.dangling

\* C1: after N successful adds and no failed one, the root list holds one
\* root of n_leaves 2^i for each set bit i of N and no other root.
C1_RootSizesAreSetBits ==
    hist.failed = 0 =>
        /\ Len(RootSizes) = Cardinality(SetBits(hist.added))
        /\ {RootSizes[i] : i \in 1..Len(RootSizes)} = SetBits(hist.added)

C1_Witness ==
    /\ hist.failed = 0 /\ hist.added = 10
    /\ {RootSizes[i] : i \in 1..Len(RootSizes)} = {8, 2}

\* C2: after successful adds only, mmr_witness succeeds for every element
\* that was added, and mmr_verify of the proof it has just returned is true.
C2_FreshWitnessVerifies ==
    /\ (ret.op = "witness" /\ hist.failed = 0 /\ ret.e \in Known(acc)) => ret.ok
    /\ (VerifiedFresh /\ ret.kind = "held" /\ hist.failed = 0) => ret.ok

C2_Witness ==
    /\ VerifiedFresh /\ ret.kind = "held" /\ hist.failed = 0 /\ ret.ok
    /\ hist.added = 5 /\ ret.w.n_siblings = 2 /\ ret.w.path = 3

\* The bounds mmr_verify checks before it folds.
WellFormed(w) ==
    /\ ~(w.n_siblings > 0 /\ w.isnull)
    /\ w.n_siblings <= WITNESS_MAX_SIBLINGS
    /\ w.path < Pow2(w.n_siblings)

\* C3: mmr_verify returns true exactly when the digest folded from all
\* n_siblings siblings is the digest of a current root.
C3_FinalFoldDecides ==
    (ret.op = "verify" /\ WellFormed(ret.w)) =>
        (ret.ok <=> IsRootDigest(FoldUpTo(ret.w, ret.w.hash, 0, ret.w.n_siblings)))

\* C4: mmr_verify returns true only for a proof whose hash is the digest of
\* a leaf of the forest.
C4_AcceptedHashIsLeaf ==
    (ret.op = "verify" /\ ret.ok) =>
        \E i \in Leaves(acc) : acc.nodes[i].hash = ret.w.hash

Changed == {"hash", "sibling", "path"}

\* C5: a proof just returned, with its hash or one sibling
\* replaced by another digest or one bit of its path flipped, is rejected.
C5_AnyChangeRejected ==
    (VerifiedFresh /\ ret.kind \in Changed) => ~ret.ok

\* All tracked nodes have different digests.
DistinctDigests ==
    \A i, j \in 1..Len(acc.nodes) :
        i # j => acc.nodes[i].hash # acc.nodes[j].hash
\* C6: an mmr_add that fails leaves the root list, the nodes and their
\* links, and the set of tracked nodes as they were.
C6_FailedAddChangesNothing ==
    (ret.op = "add" /\ ~ret.ok) => ret.unchanged

\* C7: from head along next the roots have strictly decreasing n_leaves.
C7_RootsDecrease ==
    hist.failed = 0 =>
        \A i \in 1..Len(RootSizes) - 1 : RootSizes[i] > RootSizes[i + 1]

\* C8: the siblings buffer of every proof handed to the caller is allocated.
C8_BuffersStayAllocated ==
    \A k \in 1..Len(held) : ~Dangling(held[k])

\* C9: of two proofs of one element asked for with no add in between, each
\* verifies true after the second call.
C9_BothProofsVerify ==
    ( /\ ret.op = "verify" /\ ret.kind = "held" /\ epoch[ret.k] = Calls
      /\ \E j \in 1..Len(held) :
            j # ret.k /\ held[j].hash = held[ret.k].hash /\ epoch[j] = Calls )
    => ret.ok

\* C10: count <= 0.75 * capacity between operations.
C10_LoadWithinThreshold ==
    acc.count * TRACKER_LOAD_DEN <= acc.capacity * TRACKER_LOAD_NUM

\* C11: mmr_witness for an element that was never added returns false and
\* leaves the accumulator and the cached witnesses as they were.
C11_MissingNotFound ==
    (ret.op = "witness" /\ ret.e \notin LeafMsgs(acc)) =>
        (~ret.ok /\ ret.unchanged)

\* The witness breaks a structural bound: more than 63 siblings, siblings
\* without a buffer, or a path with a bit at or above n_siblings.
Malformed(w) ==
    \/ w.n_siblings > WITNESS_MAX_SIBLINGS
    \/ (w.n_siblings > 0 /\ w.isnull)
    \/ w.path >= Pow2(w.n_siblings)

\* C12: mmr_verify returns false for every witness that breaks a structural
\* bound, whatever digests it carries.
C12_MalformedRejected ==
    (ret.op = "verify" /\ Malformed(ret.w)) => ~ret.ok

C12_Witness ==
    /\ ret.op = "verify" /\ ret.kind = "long" /\ ~ret.ok
    /\ ret.w.n_siblings = WITNESS_MAX_SIBLINGS + 1
    /\ hist.added = 2 /\ IsRootDigest(FoldUpTo(ret.w, ret.w.hash, 0, 1))

\* The number of times x was passed to free.
Occ(seq, x) == Cardinality({i \in 1..Len(seq) : seq[i] = x})

\* Between calls every cached siblings buffer is allocated and cached by
\* one item only, so the free of a cached buffer frees it once.
CacheOwnsBuffers ==
    \A i \in 1..Len(acc.cached) :
        acc.cached[i].siblings # NULL =>
            /\ bufs[acc.cached[i].siblings].alive
            /\ \A j \in 1..Len(acc.cached) :
                  acc.cached[j].siblings = acc.cached[i].siblings => j = i

\* C13: mmr_destroy frees every node, every tracker item, every siblings
\* buffer still allocated and the bucket array, if mmr_init allocated one,
\* exactly once, and frees no buffer that was freed before.
C13_DestroyFreesAllOnce ==
    /\ ret.op # "destroy" => CacheOwnsBuffers
    /\ ret.op = "destroy" =>
          /\ \A n \in 1..ret.nodes : Occ(ret.freed.nodes, n) = 1
          /\ Len(ret.freed.nodes) = ret.nodes
          /\ \A n \in 1..ret.items : Occ(ret.freed.items, n) = 1
          /\ Len(ret.freed.items) = ret.items
          /\ \A p \in ret.live : Occ(ret.freed.bufs, p) = 1
          /\ \A p \in ret.dead : Occ(ret.freed.bufs, p) = 0
          /\ ret.freed.arrays = ret.arrays
          /\ \A p \in 1..Len(bufs) : ~bufs[p].alive

C13_Witness ==
    /\ ret.op = "destroy" /\ hist.failed > 0 /\ ret.nodes = 3
    /\ Cardinality(ret.live) = 1 /\ Cardinality(ret.dead) = 1

\* The nodes of the root list.
Roots == {RootList(acc, acc.head)[i] : i \in 1..Len(RootList(acc, acc.head))}

\* C14: after successful adds a tracked node has no parent exactly when it
\* is in the root list, and mmr_tr_has_root(d) is true exactly when a node
\* of the root list has digest d.
C14_ParentlessIffRoot ==
    hist.failed = 0 =>
        /\ \A i \in Tracked(acc) : acc.nodes[i].parent = NULL <=> i \in Roots
        /\ \A d \in Pool(acc) : mmr_tr_has_root(acc, d) <=> IsRootDigest(d)

C14_Witness ==
    /\ hist.failed = 0 /\ hist.added = 7 /\ Cardinality(Roots) = 3
    /\ \E i \in Roots : \E j \in Tracked(acc) \ Roots :
          acc.nodes[i].hash = acc.nodes[j].hash

RECURSIVE TrailingOnes(_)
\* The number of one bits of n below its lowest zero bit.
TrailingOnes(n) == IF n % 2 = 1 THEN 1 + TrailingOnes(n \div 2) ELSE 0

\* C15: a successful mmr_add made when N elements have been added creates
\* as many internal nodes as N has trailing one bits.
C15_MergesAreTrailingOnes ==
    (ret.op = "add" /\ ret.ok /\ hist.failed = 0) =>
        ret.merges = TrailingOnes(hist.added - 1)

C15_Witness ==
    /\ ret.op = "add" /\ ret.ok /\ hist.failed = 0
    /\ hist.added = 16 /\ ret.merges = 4

RECURSIVE Up(_, _, _)
\* The ancestor of node i parent links up.
Up(S, node, i) == IF i = 0 THEN node ELSE Up(S, S.nodes[node].parent, i - 1)

RECURSIVE Links(_, _)
\* The number of parent links from node to its parentless ancestor.
Links(S, node) ==
    IF S.nodes[node].parent = NULL THEN 0
    ELSE 1 + Links(S, S.nodes[node].parent)

\* node is the left child of its parent; the other child of its parent.
IsLeftChild(S, node) == S.nodes[S.nodes[node].parent].left = node
SiblingOf(S, node) ==
    IF IsLeftChild(S, node) THEN S.nodes[S.nodes[node].parent].right
    ELSE S.nodes[S.nodes[node].parent].left

\* The witness w with the buffer content data describes the path from node
\* to its parentless ancestor.
DescribesPath(w, data, node) ==
    /\ w.n_siblings = Links(acc, node)
    /\ Pow2(w.n_siblings) = acc.nodes[Up(acc, node, w.n_siblings)].n_leaves
    /\ w.path < Pow2(w.n_siblings)
    /\ Len(data) = w.n_siblings
    /\ \A i \in 0..(w.n_siblings - 1) :
          /\ data[i + 1] = acc.nodes[SiblingOf(acc, Up(acc, node, i))].hash
          /\ PathBit(w.path, i) = 1 <=> IsLeftChild(acc, Up(acc, node, i))

\* C16: the witness mmr_witness has just returned has one sibling per parent
\* link from the node found to its parentless ancestor, which is log2 of
\* that root's n_leaves, level by level the digest of the sibling, and path
\* bit i set exactly when the level-i ancestor is a left child;
\* path < 2^n_siblings.
C16_WitnessDescribesPath ==
    (ret.op = "witness" /\ ret.ok) =>
        /\ ~Dangling(held[Len(held)])
        /\ \A data \in Reads(held[Len(held)]) :
              DescribesPath(held[Len(held)], data, hist.leaf[Len(held)])

\* The root that was above the node of held[k] when held[k] was made has
\* been given a parent since.
Merged(k) ==
    acc.nodes[Up(acc, hist.leaf[k], held[k].n_siblings)].parent # NULL

\* C17: mmr_verify of a witness made before an add that gave the
\* root above its leaf a parent returns false.
C17_StaleRejected ==
    (ret.op = "verify" /\ ret.kind = "held" /\ Merged(ret.k)) => ~ret.ok

\* Node i of acc is in acc' what it was, but for next and a parent it gains.
KeptNode(i) ==
    /\ i <= Len(acc'.nodes)
    /\ acc'.nodes[i].hash = acc.nodes[i].hash
    /\ acc'.nodes[i].n_leaves = acc.nodes[i].n_leaves
    /\ acc'.nodes[i].left = acc.nodes[i].left
    /\ acc'.nodes[i].right = acc.nodes[i].right
    /\ acc.nodes[i].parent # NULL => acc'.nodes[i].parent = acc.nodes[i].parent
    /\ i \in Tracked(acc) => i \in Tracked(acc')

\* C18: no call changes the hash, n_leaves, left or right of a node that
\* exists, nor a parent once set, nor takes a node out of the tracker.
C18_NodesAppendOnly ==
    [][\A i \in 1..Len(acc.nodes) : KeptNode(i)]_vars

C18_Witness ==
    /\ hist.failed = 1 /\ hist.added = 3
    /\ \E i \in 1..Len(acc.nodes) : acc.nodes[i].parent # NULL
    /\ \E i \in Tracked(acc) \ Roots : acc.nodes[i].parent = NULL

\* n is a power of two (n < 2^31)
IsPow2(n) == \E i \in 0..30 : n = Pow2(i)

\* Node i is a leaf of n_leaves 1, or the parent of two nodes of equal
\* n_leaves that sum to its own, hashed left before right, both pointing
\* back to it.
PerfectNode(S, i) ==
    /\ IsPow2(S.nodes[i].n_leaves)
    /\ IF S.nodes[i].left = NULL
       THEN S.nodes[i].right = NULL /\ S.nodes[i].n_leaves = 1
       ELSE /\ S.nodes[i].right # NULL
            /\ S.nodes[i].right # S.nodes[i].left
            /\ S.nodes[S.nodes[i].left].n_leaves
                   = S.nodes[S.nodes[i].right].n_leaves
            /\ S.nodes[i].n_leaves = 2 * S.nodes[S.nodes[i].left].n_leaves
            /\ S.nodes[i].hash = merkle_hash(S.nodes[S.nodes[i].left].hash,
                                             S.nodes[S.nodes[i].right].hash)
            /\ S.nodes[S.nodes[i].left].parent = i
            /\ S.nodes[S.nodes[i].right].parent = i
    /\ S.nodes[i].parent # NULL =>
          (S.nodes[S.nodes[i].parent].left = i
              \/ S.nodes[S.nodes[i].parent].right = i)

\* C19: in every reachable state every node is a leaf or the parent of two
\* equal perfect subtrees.
C19_PerfectTrees ==
    \A i \in 1..Len(acc.nodes) : PerfectNode(acc, i)

C19_Witness ==
    /\ hist.failed = 1 /\ hist.added = 3 /\ ~DistinctDigests
    /\ \E i \in 1..Len(acc.nodes) : acc.nodes[i].n_leaves = 2
    /\ \E i \in Tracked(acc) \ Roots :
          acc.nodes[i].parent = NULL /\ acc.nodes[i].n_leaves = 1

RECURSIVE PopCount(_)
PopCount(n) == IF n = 0 THEN 0 ELSE (n % 2) + PopCount(n \div 2)

\* C20: after successful adds every node is held by one tracker item, in
\* the chain its digest selects under the current capacity, lookup by its
\* digest finds a record with that digest, and count is the number of
\* nodes, 2N - popcount(N).
C20_TrackerHoldsEveryNode ==
    hist.failed = 0 =>
        /\ Len(acc.items) = acc.capacity
        /\ \A n \in 1..Len(acc.nodes) :
              /\ Occ(Flatten(acc.items, 1), n) = 1
              /\ Occ(Bucket(acc, mmr_tr_hash(acc.nodes[n].hash,
                                             acc.capacity)), n) = 1
              /\ mmr_tr_get(acc, acc.nodes[n].hash) # NULL
              /\ acc.nodes[mmr_tr_get(acc, acc.nodes[n].hash)].hash
                    = acc.nodes[n].hash
        /\ acc.count = Len(acc.nodes)
        /\ acc.count = 2 * hist.added - PopCount(hist.added)

C20_Witness ==
    /\ hist.failed = 0 /\ hist.added = 24 /\ acc.count = 46
    /\ acc.capacity = 4 * TRACKER_MIN_CAPACITY

\* Everything of the accumulator but the cached witnesses is in acc' what
\* it is in acc.
SameButCache ==
    /\ acc'.head = acc.head
    /\ acc'.nodes = acc.nodes
    /\ acc'.items = acc.items
    /\ acc'.count = acc.count
    /\ acc'.capacity = acc.capacity
    /\ Len(acc'.cached) = Len(acc.cached)

\* C21: mmr_verify changes nothing in the accumulator, and a successful
\* mmr_witness changes only the cached witness of the item mmr_tr_get
\* found for the element.
C21_VerifyAndWitnessFrame ==
    [][/\ ret'.op = "verify" => acc' = acc /\ bufs' = bufs
       /\ (ret'.op = "witness" /\ ret'.ok) =>
             /\ SameButCache
             /\ \A i \in 1..Len(acc.cached) :
                   i # mmr_tr_get(acc, sha256(ret'.e)) =>
                       acc'.cached[i] = acc.cached[i]]_vars

C21_Witness ==
    /\ ret.op = "witness" /\ ret.ok /\ ~ret.unchanged
    /\ Len(held) = 2
    /\ \E i \in 1..Len(acc.cached) : \E j \in 1..Len(acc.cached) :
          /\ i # j
          /\ acc.cached[i].n_siblings > 0
          /\ acc.cached[j].n_siblings > 0
          /\ acc.cached[i].hash # acc.cached[j].hash

\* C22: a call of mmr_witness whose calloc fails returns false without an
\* access through the missing buffer and leaves the accumulator, the
\* cached witness of the item included, as it was.
C22_NoMemFailsCleanly ==
    ret.op = "witness_nomem" =>
        /\ ~ret.crashed
        /\ ~ret.ok
        /\ ret.unchanged

\* C23: mmr_verify of a witness handed out before the last mmr_add returns
\* true as long as the root above its leaf has no parent.
C23_WitnessOutlivesAdds ==
    ( /\ ret.op = "verify" /\ ret.kind = "held"
      /\ epoch[ret.k] < Calls
      /\ ~Merged(ret.k) )
    => ret.ok

RECURSIVE LeavesUnder(_, _)
\* The leaves of the tree of node, read left to right.  Nodes are numbered
\* in the order of their allocation, so a leaf added later has the larger
\* number.
LeavesUnder(S, node) ==
    IF S.nodes[node].left = NULL THEN <<node>>
    ELSE LeavesUnder(S, S.nodes[node].left)
             \o LeavesUnder(S, S.nodes[node].right)

Increasing(seq) == \A i \in 1..(Len(seq) - 1) : seq[i] < seq[i + 1]

\* C24: in every reachable state the left child of a node was allocated
\* before its right child, the leaves of every tree read left to right are
\* in the order of their insertion, and every leaf under a larger root was
\* inserted before every leaf under a smaller root.
C24_InsertionOrder ==
    /\ \A n \in 1..Len(acc.nodes) :
          /\ acc.nodes[n].left # NULL =>
                 /\ acc.nodes[n].left < acc.nodes[n].right
                 /\ acc.nodes[n].right < n
          /\ Increasing(LeavesUnder(acc, n))
    /\ \A a \in Roots : \A b \in Roots :
          acc.nodes[a].n_leaves > acc.nodes[b].n_leaves =>
              \A x \in 1..Len(LeavesUnder(acc, a)) :
                  \A y \in 1..Len(LeavesUnder(acc, b)) :
                      LeavesUnder(acc, a)[x] < LeavesUnder(acc, b)[y]

C24_Witness ==
    /\ hist.added = 22
    /\ Len(RootList(acc, acc.head)) = 3
    /\ \E a \in Roots : acc.nodes[a].n_leaves = 16

=============================================================================
